---- MODULE Spec2Model ----
(***************************************************************************)
(* Model of the TikTok battle listener (src/scripts/tiktok_listener.py):   *)
(* the connection supervisor TikTokBattleListener.run with main/close, and *)
(* the event handlers wired by _wire_events together with the helpers they *)
(* call (trigger_start, trigger_end, _update_scores, _score_gift, ...).    *)
(*                                                                         *)
(* Handlers are coroutines on one event loop: a handler runs without       *)
(* interruption from one await of network I/O to the next.  An action of   *)
(* the model is one such run: the delivery of an event up to the handler's *)
(* first await (or its return), or the resumption of a suspended handler   *)
(* with the result of the call it awaited, up to its next await.           *)
(***************************************************************************)
EXTENDS Integers, Sequences, FiniteSets, TLC

VARIABLES
    \* ---- connection supervisor: run(), main(), close() ----
    run_pc,         \* position of main()/run(): the await it is suspended at
    backoff,        \* local variable backoff of run()
    breaking,       \* a break is pending while the finally clause runs
    last_exc,       \* how the last connect() ended
    was_connected,  \* whether the feed session had connected before it ended
    cancelled,      \* a shutdown signal (CancelledError) has been delivered
    attempts,       \* number of connect attempts started (saturating)
    history,        \* the last MaxAttempts completed attempts: outcome and wait
    close_steps,    \* close(): the steps performed, in order, and whether each raised
    escaped,        \* an exception left main()
    \* ---- listener fields ----
    now,            \* the clock read by datetime.now(), in seconds
    seen,           \* self._seen: idempotency key -> first-seen time
    last_start,     \* self._last_start
    last_end,       \* self._last_end
    last_scores,    \* self._last_scores
    score_by_id,    \* self._score_by_id
    slots,          \* self._slots
    \* ---- handlers ----
    tasks,          \* the suspended handlers, oldest first
    fin,            \* the handler that returned last, with what it did
    \* ---- Battle Control API (src/backend) ----
    api,            \* BattleStateManager._state: active, scores, slot_one, slot_two
    calls,          \* what became of the listener's calls since the last start
    \* ---- WebsocketManager (src/backend/websocket_manager.py) ----
    connections,    \* self.connections
    sockets,        \* each websocket: where its websocket_endpoint stands
    broadcasts,     \* the broadcast() coroutines suspended in a send, oldest first
    completed,      \* the broadcast that returned last
    ws_raised       \* an exception has left connect, disconnect or broadcast

runVars == <<run_pc, backoff, breaking, last_exc, was_connected, cancelled,
             attempts, history, close_steps, escaped>>

lisVars == <<now, seen, last_start, last_end, last_scores, score_by_id, slots, tasks, fin,
             api, calls>>

wsVars == <<connections, sockets, broadcasts, completed, ws_raised>>

vars == <<runVars, lisVars, wsVars>>

\* ---- program constants ----
BaseBackoff == 5
MaxBackoff == 60
RateLimitBackoff == 300
Cooldown == 30
DedupeWindow == 30
SnippetLen == 64

\* ---- bounds of the model ----
MaxAttempts == 6
MaxTime == 40
MaxScore == 20
MaxPending == 2
MaxApiScore == 30

Min(a, b) == IF a < b THEN a ELSE b
Max(a, b) == IF a > b THEN a ELSE b

(***************************************************************************)
(* Strings.  A Python str is the sequence of its characters.               *)
(***************************************************************************)

Uppers == <<"A", "B", "C", "D", "E", "F", "G", "H", "I", "J", "K", "L", "M",
            "N", "O", "P", "Q", "R", "S", "T", "U", "V", "W", "X", "Y", "Z">>
Lowers == <<"a", "b", "c", "d", "e", "f", "g", "h", "i", "j", "k", "l", "m",
            "n", "o", "p", "q", "r", "s", "t", "u", "v", "w", "x", "y", "z">>
Whitespace == {" ", "\t", "\n", "\r"}

\* str.lower()
LowerChar(c) ==
    IF \E i \in 1..26 : Uppers[i] = c
    THEN Lowers[CHOOSE i \in 1..26 : Uppers[i] = c]
    ELSE c
Lower(s) == [i \in 1..Len(s) |-> LowerChar(s[i])]

\* str.lstrip(chars), str.rstrip(chars)
RECURSIVE LStrip(_, _)
LStrip(s, chars) ==
    IF s # <<>> /\ Head(s) \in chars THEN LStrip(Tail(s), chars) ELSE s
RECURSIVE RStrip(_, _)
RStrip(s, chars) ==
    IF s # <<>> /\ s[Len(s)] \in chars THEN RStrip(SubSeq(s, 1, Len(s) - 1), chars) ELSE s
\* str.strip()
Strip(s) == RStrip(LStrip(s, Whitespace), Whitespace)

\* str.startswith(p), p in s, s[:n]
StartsWith(s, p) == Len(s) >= Len(p) /\ SubSeq(s, 1, Len(p)) = p
Contains(s, p) == \E i \in 0..(Len(s) - Len(p)) : SubSeq(s, i + 1, i + Len(p)) = p
Take(s, n) == SubSeq(s, 1, Min(n, Len(s)))

\* The literals of the code.
S_bang_battle == <<"!", "b", "a", "t", "t", "l", "e">>
S_start_battle == <<"s", "t", "a", "r", "t", " ", "b", "a", "t", "t", "l", "e">>
S_battle == <<"b", "a", "t", "t", "l", "e">>
S_bang_end == <<"!", "e", "n", "d">>
S_end_battle == <<"e", "n", "d", " ", "b", "a", "t", "t", "l", "e">>
S_gg == <<"g", "g">>
S_whistle == <<"w", "h", "i", "s", "t", "l", "e">>
S_bang_slots == <<"!", "s", "l", "o", "t", "s">>
S_start == <<"s", "t", "a", "r", "t">>
S_enter == <<"e", "n", "t", "e", "r">>
S_begin == <<"b", "e", "g", "i", "n">>
S_end == <<"e", "n", "d">>
S_finish == <<"f", "i", "n", "i", "s", "h">>
S_exit == <<"e", "x", "i", "t">>
S_stop == <<"s", "t", "o", "p">>
DEFAULT_SLOT_ONE == <<"P", "e", "r", "f", "o", "r", "m", "e", "r", " ", "O", "n", "e">>
DEFAULT_SLOT_TWO == <<"P", "e", "r", "f", "o", "r", "m", "e", "r", " ", "T", "w", "o">>

(***************************************************************************)
(* Events.  An event is its payload (_payload(evt), always a dict), with   *)
(* the fields the handlers read; an absent field is the empty string, the  *)
(* empty list or 0, which the code's `or` chains treat like None.          *)
(*   kind          the event class the handler is registered for           *)
(*   ids           the values of event_id, message_id, id, msg_id, cid     *)
(*   comment       payload "comment" (or "content"), event.comment         *)
(*   user          payload user's unique_id (or display_id)                *)
(*   timestamp     payload "timestamp" (or "create_time"), as text         *)
(*   armies        the "points" (or "score") of the listed armies          *)
(*   gift_name     event.gift.name                                         *)
(*   repeat_count, diamond_count   the gift's repeat count and unit value  *)
(*   recipient     the recipient found by the probing of on_gift           *)
(*   state         payload "state" (or "link_state"), as text              *)
(*   action        payload "action", as text                               *)
(***************************************************************************)
NoIds == <<<<>>, <<>>, <<>>, <<>>, <<>>>>
Event(kind) ==
    [kind |-> kind, ids |-> NoIds, comment |-> <<>>, user |-> <<>>, timestamp |-> <<>>,
     armies |-> <<>>, gift_name |-> <<>>, repeat_count |-> 0, diamond_count |-> 0,
     recipient |-> <<>>, state |-> <<>>, action |-> <<>>]
WithId(e, id) == [e EXCEPT !.ids = <<id, <<>>, <<>>, <<>>, <<>>>>]

(***************************************************************************)
(* Pure helpers                                                            *)
(***************************************************************************)

\* looks_like_battle_start(comment, gift_name)
looks_like_battle_start(comment, gift_name) ==
    LET text == Lower(comment) IN
    IF Contains(text, S_bang_battle) \/ Contains(text, S_start_battle) THEN TRUE
    ELSE IF gift_name # <<>> /\ Contains(Lower(gift_name), S_battle) THEN TRUE
    ELSE FALSE

\* looks_like_battle_end(comment, gift_name)
looks_like_battle_end(comment, gift_name) ==
    LET text == Lower(comment) IN
    IF Contains(text, S_bang_end) \/ Contains(text, S_end_battle) \/ S_gg = Strip(text) THEN TRUE
    ELSE IF gift_name # <<>> /\ Contains(Lower(gift_name), S_whistle) THEN TRUE
    ELSE FALSE

\* _normalize_user_id(val)
NormalizeUserId(val) == Lower(LStrip(Strip(val), {"@"}))

\* The first truthy value among the id keys, or the empty string.
RECURSIVE FirstTruthy(_)
FirstTruthy(vals) ==
    IF vals = <<>> THEN <<>>
    ELSE IF Head(vals) # <<>> THEN Head(vals)
    ELSE FirstTruthy(Tail(vals))

MakeEventKeyNoGuard(evt, etype) ==
    LET v == FirstTruthy(evt.ids)
        snippet == Take(Strip(evt.comment), SnippetLen)
    IN  IF v # <<>> THEN <<etype, ":">> \o v
        ELSE IF etype = "comment" /\ evt.comment # <<>> /\ snippet # <<>>
             THEN <<etype, ":">> \o evt.user \o <<":">> \o snippet
        ELSE <<etype, ":">> \o evt.timestamp \o <<":">> \o evt.user

MakeEventKeyTextFirst(evt, etype) ==
    LET v == FirstTruthy(evt.ids)
        snippet == Take(Strip(evt.comment), SnippetLen)
    IN  IF etype = "comment" /\ evt.comment # <<>> /\ snippet # <<>>
        THEN <<etype, ":">> \o evt.user \o <<":">> \o snippet
        ELSE IF v # <<>> THEN <<etype, ":">> \o v
        ELSE IF evt.timestamp # <<>>
             THEN <<etype, ":">> \o evt.timestamp \o <<":">> \o evt.user
        ELSE <<>>

\* _make_event_key(evt, etype): the key as a string, None as the empty string.
\* The etype prefix is kept as one element: no etype of the code followed by
\* ":" is a prefix of another etype, so keys of different etypes never collide.
MakeEventKey(evt, etype) ==
    LET v == FirstTruthy(evt.ids)
        snippet == Take(Strip(evt.comment), SnippetLen)
    IN  IF v # <<>> THEN <<etype, ":">> \o v
        ELSE IF etype = "comment" /\ evt.comment # <<>> /\ snippet # <<>>
             THEN <<etype, ":">> \o evt.user \o <<":">> \o snippet
        ELSE IF evt.timestamp # <<>>
             THEN <<etype, ":">> \o evt.timestamp \o <<":">> \o evt.user
        ELSE <<>>

IsDuplicateUnregistered(sn, evt, etype, t) ==
    LET key == MakeEventKey(evt, etype)
        kept == {k \in DOMAIN sn : ~(sn[k] < t - DedupeWindow)}
    IN  IF key = <<>> THEN [dup |-> FALSE, seen |-> sn]
        ELSE [dup |-> key \in kept, seen |-> [k \in kept |-> sn[k]]]

IsDuplicateNoWindow(sn, evt, etype, t) ==
    LET key == MakeEventKey(evt, etype)
        kept == {k \in DOMAIN sn : ~(sn[k] < t)}
    IN  IF key = <<>> THEN [dup |-> FALSE, seen |-> sn]
        ELSE IF key \in kept THEN [dup |-> TRUE, seen |-> [k \in kept |-> sn[k]]]
        ELSE [dup |-> FALSE, seen |-> [k \in kept \cup {key} |-> IF k = key THEN t ELSE sn[k]]]

IsDuplicateSliding(sn, evt, etype, t) ==
    LET key == MakeEventKey(evt, etype)
        kept == {k \in DOMAIN sn : ~(sn[k] < t - DedupeWindow)}
    IN  IF key = <<>> THEN [dup |-> FALSE, seen |-> sn]
        ELSE [dup |-> key \in kept,
              seen |-> [k \in kept \cup {key} |-> IF k = key THEN t ELSE sn[k]]]

\* _is_duplicate(evt, etype) on the window sn at time t: whether the event is a
\* duplicate, and the window afterwards.
IsDuplicate(sn, evt, etype, t) ==
    LET key == MakeEventKey(evt, etype)
        drop_before == t - DedupeWindow
        kept == {k \in DOMAIN sn : ~(sn[k] < drop_before)}
        purged == [k \in kept |-> sn[k]]
    IN  IF key = <<>> THEN [dup |-> FALSE, seen |-> sn]
        ELSE IF key \in kept THEN [dup |-> TRUE, seen |-> purged]
        ELSE [dup |-> FALSE, seen |-> [k \in kept \cup {key} |-> IF k = key THEN t ELSE sn[k]]]

\* The name a slot is matched by: name.strip().lower().lstrip("@")
MatchName(name) == LStrip(Lower(Strip(name)), {"@"})

\* _slot_for_recipient(recipient) with the bindings sl.
SlotOrder == <<"slot_one", "slot_two">>
SlotForRecipientDefaultTwo(recipient, sl) ==
    LET rec == MatchName(recipient)
        hit == {i \in 1..2 : MatchName(sl[SlotOrder[i]]) # <<>>
                             /\ (\/ rec = MatchName(sl[SlotOrder[i]])
                                 \/ Contains(MatchName(sl[SlotOrder[i]]), rec)
                                 \/ Contains(rec, MatchName(sl[SlotOrder[i]])))}
    IN  IF rec # <<>> /\ 1 \in hit THEN "slot_one" ELSE "slot_two"

SlotForRecipientOnePass(recipient, sl) ==
    LET rec == MatchName(recipient)
        hit == {i \in 1..2 : MatchName(sl[SlotOrder[i]]) # <<>>
                             /\ (\/ rec = MatchName(sl[SlotOrder[i]])
                                 \/ Contains(MatchName(sl[SlotOrder[i]]), rec)
                                 \/ Contains(rec, MatchName(sl[SlotOrder[i]])))}
    IN  IF rec = <<>> \/ hit = {} THEN "slot_one"
        ELSE SlotOrder[CHOOSE i \in hit : \A j \in hit : i <= j]

SlotForRecipient(recipient, sl) ==
    LET rec == MatchName(recipient)
        exact == {i \in 1..2 : sl[SlotOrder[i]] # <<>> /\ MatchName(sl[SlotOrder[i]]) # <<>>
                               /\ rec = MatchName(sl[SlotOrder[i]])}
        partial == {i \in 1..2 : sl[SlotOrder[i]] # <<>> /\ MatchName(sl[SlotOrder[i]]) # <<>>
                                 /\ (\/ Contains(MatchName(sl[SlotOrder[i]]), rec)
                                     \/ Contains(rec, MatchName(sl[SlotOrder[i]])))}
        first(S) == SlotOrder[CHOOSE i \in S : \A j \in S : i <= j]
    IN  IF rec = <<>> THEN "slot_one"
        ELSE IF exact # {} THEN first(exact)
        ELSE IF partial # {} THEN first(partial)
        ELSE "slot_one"

GiftValueProductOnly(evt) == evt.repeat_count * evt.diamond_count

\* The value of a gift: lines 559-581 of on_gift.
GiftValue(evt) ==
    IF evt.repeat_count # 0 /\ evt.diamond_count # 0 THEN evt.repeat_count * evt.diamond_count
    ELSE IF evt.diamond_count # 0 THEN evt.diamond_count
    ELSE 0

\* datetime values: datetime.min is naive, datetime.now(timezone.utc) is aware.
DatetimeMin == [aware |-> FALSE, t |-> 0]
Utc(t) == [aware |-> TRUE, t |-> t]
\* now - last raises TypeError when one is naive and the other aware.
SubRaises(last) == ~last.aware
\* now - last > self._cooldown, for an aware last
CooldownOver(last, t) == t - last.t > Cooldown

(***************************************************************************)
(* Listener state and handlers.  The code of a handler between two awaits  *)
(* is a function from the listener's fields (a record S) to their new      *)
(* values; the handler being run is the record tk, at position i of tasks. *)
(***************************************************************************)

EmptyMap == [k \in {} |-> 0]
ZeroScores == [slot_one |-> 0, slot_two |-> 0]

Cur ==
    [seen |-> seen, last_start |-> last_start, last_end |-> last_end,
     last_scores |-> last_scores, score_by_id |-> score_by_id, slots |-> slots,
     tasks |-> tasks, fin |-> fin]

Apply(S) ==
    \E T \in {S} :
        /\ seen' = T.seen
        /\ last_start' = T.last_start
        /\ last_end' = T.last_end
        /\ last_scores' = T.last_scores
        /\ score_by_id' = T.score_by_id
        /\ slots' = T.slots
        /\ tasks' = T.tasks
        /\ fin' = T.fin

\* An outbound call to the Control API.
Call(op) == [op |-> op, slot |-> "", amount |-> 0, one |-> <<>>, two |-> <<>>, reason |-> ""]
StartCall(reason) == [Call("POST battle/start") EXCEPT !.reason = reason]
EndCall(reason) == [Call("POST battle/end") EXCEPT !.reason = reason]
ScoreCall(slot, amount) == [Call("POST score/add") EXCEPT !.slot = slot, !.amount = amount]
ImportCall(one, two) == [Call("POST battle/slots/import") EXCEPT !.one = one, !.two = two]
StateCall == Call("GET state")

\* How long ago a lifecycle transition last happened, as the properties
\* distinguish it: never, within the cooldown, or longer ago.
Recency(last, t) ==
    IF ~last.aware THEN "never" ELSE IF t - last.t > 30 THEN "old" ELSE "recent"

\* A handler that starts on event evt at the state S.  Besides the handler's
\* locals it records, for the properties, what the handler found when it
\* started (the cumulatives p0, the recency of the last start and end), the
\* cumulatives prev that _update_scores or _score_gift found recorded when it
\* ran, the ledger entry led that _score_gift found for the recipient, and the
\* calls it has issued (out).
NewTask(S, evt) ==
    [kind |-> evt.kind, pc |-> "run", evt |-> evt,
     s1 |-> 0, s2 |-> 0, value |-> 0, slot |-> "", d2 |-> 0, one |-> <<>>, two |-> <<>>,
     p0 |-> S.last_scores, prev |-> ZeroScores, led |-> 0, start0 |-> Recency(S.last_start, now),
     end0 |-> Recency(S.last_end, now), out |-> <<>>]
NoTask == [NewTask([last_scores |-> ZeroScores, last_start |-> DatetimeMin,
                    last_end |-> DatetimeMin], Event("none"))
           EXCEPT !.pc = "none"]

RemoveAt(seq, i) == SubSeq(seq, 1, i - 1) \o SubSeq(seq, i + 1, Len(seq))

\* The handler issues a call and suspends at the await named pc.
Await(S, i, tk, pc, call) ==
    LET t == [tk EXCEPT !.pc = pc, !.out = Append(@, call)]
    IN  [S EXCEPT !.tasks = IF i > Len(S.tasks) THEN Append(S.tasks, t)
                            ELSE [S.tasks EXCEPT ![i] = t]]

\* The handler returns (result "done" or "duplicate") or raises (its exception).
Return(S, i, tk, result) ==
    [S EXCEPT !.tasks = IF i > Len(S.tasks) THEN S.tasks ELSE RemoveAt(S.tasks, i),
              !.fin = [tk EXCEPT !.pc = result]]

trigger_start_keeps_ledger(S, i, tk, reason) ==
    Await([S EXCEPT !.last_start = Utc(now),
                    !.last_scores = ZeroScores],
          i, tk, "trigger_start:post", StartCall(reason))

\* trigger_start(reason), up to its await of the POST.
trigger_start(S, i, tk, reason) ==
    Await([S EXCEPT !.last_start = Utc(now),
                    !.last_scores = ZeroScores,
                    !.score_by_id = EmptyMap],
          i, tk, "trigger_start:post", StartCall(reason))

\* trigger_end(reason), up to its await of the POST.
trigger_end(S, i, tk, reason) ==
    Await([S EXCEPT !.last_end = Utc(now)], i, tk, "trigger_end:post", EndCall(reason))

update_scores_unclamped(S, i, tk, slot_one_score, slot_two_score) ==
    LET delta_one == slot_one_score - S.last_scores.slot_one
        delta_two == slot_two_score - S.last_scores.slot_two
        S1 == [S EXCEPT !.last_scores = [slot_one |-> slot_one_score,
                                         slot_two |-> slot_two_score]]
        tk1 == [tk EXCEPT !.prev = S.last_scores]
    IN  IF delta_one # 0
        THEN Await(S1, i, [tk1 EXCEPT !.d2 = delta_two], "update_scores:post_one",
                   ScoreCall("slot_one", delta_one))
        ELSE IF delta_two # 0
        THEN Await(S1, i, tk1, "update_scores:post_two", ScoreCall("slot_two", delta_two))
        ELSE Return(S1, i, tk1, "done")

\* _update_scores(slot_one_score, slot_two_score), up to its first await; it is
\* the last statement of on_armies.
update_scores(S, i, tk, slot_one_score, slot_two_score) ==
    LET delta_one == Max(0, slot_one_score - S.last_scores.slot_one)
        delta_two == Max(0, slot_two_score - S.last_scores.slot_two)
        S1 == [S EXCEPT !.last_scores = [slot_one |-> slot_one_score,
                                         slot_two |-> slot_two_score]]
        tk1 == [tk EXCEPT !.prev = S.last_scores]
    IN  IF delta_one # 0
        THEN Await(S1, i, [tk1 EXCEPT !.d2 = delta_two], "update_scores:post_one",
                   ScoreCall("slot_one", delta_one))
        ELSE IF delta_two # 0
        THEN Await(S1, i, tk1, "update_scores:post_two", ScoreCall("slot_two", delta_two))
        ELSE Return(S1, i, tk1, "done")

\* _score_gift(amount, recipient), up to its await of the POST.
score_gift(S, i, tk, amount, recipient) ==
    IF amount <= 0 THEN Return(S, i, tk, "done")
    ELSE LET slot == SlotForRecipient(recipient, S.slots)
         IN  Await(S, i, [tk EXCEPT !.slot = slot, !.value = amount], "score_gift:post",
                   ScoreCall(slot, amount))

\* on_gift from `if gift_value:` on.
gift_tail(S, i, tk) ==
    LET gift_value == GiftValue(tk.evt)
    IN  IF gift_value # 0 THEN score_gift(S, i, tk, gift_value, tk.evt.recipient)
        ELSE Return(S, i, tk, "done")

\* What the handler does once trigger_start, trigger_end or _maybe_trigger has
\* returned to it.
Continue(S, i, tk) ==
    IF tk.kind = "armies" THEN update_scores(S, i, tk, tk.s1, tk.s2)
    ELSE IF tk.kind = "gift" THEN gift_tail(S, i, tk)
    ELSE Return(S, i, tk, "done")

maybe_trigger_ungated(S, i, tk, comment, gift_name) ==
    IF looks_like_battle_start(comment, gift_name) THEN trigger_start(S, i, tk, "heuristic")
    ELSE IF looks_like_battle_end(comment, gift_name) THEN trigger_end(S, i, tk, "heuristic")
    ELSE Continue(S, i, tk)

maybe_trigger_stamped_late(S, i, tk, comment, gift_name) ==
    LET try_end ==
            IF looks_like_battle_end(comment, gift_name)
            THEN IF SubRaises(S.last_end) THEN Return(S, i, tk, "TypeError")
                 ELSE IF CooldownOver(S.last_end, now) THEN trigger_end(S, i, tk, "heuristic")
                 ELSE Continue(S, i, tk)
            ELSE Continue(S, i, tk)
    IN  IF looks_like_battle_start(comment, gift_name)
        THEN IF SubRaises(S.last_start) THEN Return(S, i, tk, "TypeError")
             ELSE IF CooldownOver(S.last_start, now)
                  THEN [trigger_start(S, i, tk, "heuristic") EXCEPT !.last_start = S.last_start]
             ELSE try_end
        ELSE try_end

\* _maybe_trigger(comment, gift_name)
maybe_trigger(S, i, tk, comment, gift_name) ==
    LET try_end ==
            IF looks_like_battle_end(comment, gift_name)
            THEN IF SubRaises(S.last_end) THEN Return(S, i, tk, "TypeError")
                 ELSE IF CooldownOver(S.last_end, now) THEN trigger_end(S, i, tk, "heuristic")
                 ELSE Continue(S, i, tk)
            ELSE Continue(S, i, tk)
    IN  IF looks_like_battle_start(comment, gift_name)
        THEN IF SubRaises(S.last_start) THEN Return(S, i, tk, "TypeError")
             ELSE IF CooldownOver(S.last_start, now) THEN trigger_start(S, i, tk, "heuristic")
             ELSE try_end
        ELSE try_end

\* import_slots(slot_one, slot_two), up to its await of the POST.
import_slots(S, i, tk, one, two) ==
    Await(S, i, [tk EXCEPT !.one = one, !.two = two], "import_slots:post", ImportCall(one, two))

\* _sync_slots once the GET has ended with resp: the new bindings.  resp.raises
\* stands for the request or resp.json() raising; otherwise resp is the dict
\* data: slot_one/slot_two are absent ("none"), a string ("str") or a dict
\* ("dict", with the name found under name/slot_one/slotOne), and
\* slot_one_name/slot_two_name are the fallback keys.
SyncedName(val, fallback) ==
    LET from_dict == IF val.tag = "dict" THEN val.name ELSE <<>>
    IN  IF from_dict # <<>> THEN from_dict ELSE fallback
sync_slots_resets(sl, resp) ==
    IF resp.raises THEN [slot_one |-> DEFAULT_SLOT_ONE, slot_two |-> sl.slot_two]
    ELSE LET slot_one_name == SyncedName(resp.slot_one, resp.slot_one_name)
             slot_two_name == SyncedName(resp.slot_two, resp.slot_two_name)
         IN  [slot_one |-> IF slot_one_name # <<>> THEN slot_one_name ELSE sl.slot_one,
              slot_two |-> IF slot_two_name # <<>> THEN slot_two_name ELSE sl.slot_two]
sync_slots(sl, resp) ==
    IF resp.raises THEN sl
    ELSE LET slot_one_name == SyncedName(resp.slot_one, resp.slot_one_name)
             slot_two_name == SyncedName(resp.slot_two, resp.slot_two_name)
         IN  [slot_one |-> IF slot_one_name # <<>> THEN slot_one_name ELSE sl.slot_one,
              slot_two |-> IF slot_two_name # <<>> THEN slot_two_name ELSE sl.slot_two]

\* ---- the handlers, from the delivery of the event to the first await ----

Deduped(S, evt, etype, body(_, _)) ==
    LET d == IsDuplicate(S.seen, evt, etype, now)
        S1 == [S EXCEPT !.seen = d.seen]
        i == Len(S.tasks) + 1
        tk == NewTask(S, evt)
    IN  IF d.dup THEN Return(S1, i, tk, "duplicate") ELSE body(S1, tk)

on_battle(S, evt) ==
    LET body(S1, tk) ==
            trigger_start([S1 EXCEPT !.last_scores = ZeroScores], Len(S1.tasks) + 1, tk,
                          "linkmic_battle_event")
    IN  Deduped(S, evt, "battle", body)

on_battle_notice(S, evt) ==
    LET body(S1, tk) == trigger_start(S1, Len(S1.tasks) + 1, tk, "linkmic_battle_notice")
    IN  Deduped(S, evt, "battle_notice", body)

on_battle_victory(S, evt) ==
    LET body(S1, tk) == trigger_end(S1, Len(S1.tasks) + 1, tk, "linkmic_battle_victory")
    IN  Deduped(S, evt, "battle_victory", body)

on_battle_punish_finish(S, evt) ==
    LET body(S1, tk) == trigger_end(S1, Len(S1.tasks) + 1, tk, "linkmic_battle_punish_finish")
    IN  Deduped(S, evt, "battle_end", body)

on_link_state_end_first(S, evt) ==
    LET body(S1, tk) ==
            LET state_lower == Lower(evt.state)
                i == Len(S1.tasks) + 1
            IN  IF Contains(state_lower, S_battle)
                   /\ (Contains(state_lower, S_end) \/ Contains(state_lower, S_finish)
                       \/ Contains(state_lower, S_exit))
                THEN trigger_end(S1, i, tk, "link_state")
                ELSE IF Contains(state_lower, S_battle)
                        /\ (Contains(state_lower, S_start) \/ Contains(state_lower, S_enter)
                            \/ Contains(state_lower, S_begin))
                THEN trigger_start(S1, i, tk, "link_state")
                ELSE Return(S1, i, tk, "done")
    IN  Deduped(S, evt, "link_state", body)

on_link_state(S, evt) ==
    LET body(S1, tk) ==
            LET state_lower == Lower(evt.state)
                i == Len(S1.tasks) + 1
            IN  IF Contains(state_lower, S_battle)
                   /\ (Contains(state_lower, S_start) \/ Contains(state_lower, S_enter)
                       \/ Contains(state_lower, S_begin))
                THEN trigger_start(S1, i, tk, "link_state")
                ELSE IF Contains(state_lower, S_battle)
                        /\ (Contains(state_lower, S_end) \/ Contains(state_lower, S_finish)
                            \/ Contains(state_lower, S_exit))
                THEN trigger_end(S1, i, tk, "link_state")
                ELSE Return(S1, i, tk, "done")
    IN  Deduped(S, evt, "link_state", body)

on_control(S, evt) ==
    LET body(S1, tk) ==
            LET action_lower == Lower(evt.action)
                i == Len(S1.tasks) + 1
            IN  IF Contains(action_lower, S_battle)
                   /\ (Contains(action_lower, S_start) \/ Contains(action_lower, S_begin))
                THEN trigger_start(S1, i, tk, "control")
                ELSE IF Contains(action_lower, S_battle)
                        /\ (Contains(action_lower, S_end) \/ Contains(action_lower, S_finish)
                            \/ Contains(action_lower, S_stop))
                THEN trigger_end(S1, i, tk, "control")
                ELSE Return(S1, i, tk, "done")
    IN  Deduped(S, evt, "control", body)

on_armies(S, evt) ==
    LET body(S1, tk) ==
            LET armies == evt.armies
                i == Len(S1.tasks) + 1
                slot_one_score == IF Len(armies) > 0 /\ armies[1] # 0 THEN armies[1]
                                  ELSE S1.last_scores.slot_one
                slot_two_score == IF Len(armies) > 1 /\ armies[2] # 0 THEN armies[2]
                                  ELSE S1.last_scores.slot_two
                tk1 == [tk EXCEPT !.s1 = slot_one_score, !.s2 = slot_two_score]
            IN  IF SubRaises(S1.last_start) THEN Return(S1, i, tk1, "TypeError")
                ELSE IF CooldownOver(S1.last_start, now)
                     THEN trigger_start(S1, i, tk1, "armies_event")
                ELSE update_scores(S1, i, tk1, slot_one_score, slot_two_score)
    IN  Deduped(S, evt, "armies", body)

on_gift(S, evt) ==
    LET body(S1, tk) == Await(S1, Len(S1.tasks) + 1, tk, "on_gift:sync", StateCall)
    IN  Deduped(S, evt, "gift", body)

\* The two names of a "!slots a|b" command.
IndexOf(s, c) == IF \E k \in 1..Len(s) : s[k] = c
                 THEN CHOOSE k \in 1..Len(s) : s[k] = c /\ \A j \in 1..(k - 1) : s[j] # c
                 ELSE 0
SlotsCommandNamesNoDefault(text) ==
    LET rest == Strip(SubSeq(text, Len(S_bang_slots) + 1, Len(text)))
        bar == IndexOf(rest, "|")
        part0 == IF bar = 0 THEN rest ELSE SubSeq(rest, 1, bar - 1)
        after == IF bar = 0 THEN <<>> ELSE SubSeq(rest, bar + 1, Len(rest))
        bar2 == IndexOf(after, "|")
        part1 == IF bar2 = 0 THEN after ELSE SubSeq(after, 1, bar2 - 1)
    IN  [first |-> IF Strip(part0) # <<>> THEN Strip(part0) ELSE DEFAULT_SLOT_ONE,
         second |-> IF bar # 0 THEN Strip(part1) ELSE DEFAULT_SLOT_TWO]
SlotsCommandNames(text) ==
    LET rest == Strip(SubSeq(text, Len(S_bang_slots) + 1, Len(text)))
        bar == IndexOf(rest, "|")
        part0 == IF bar = 0 THEN rest ELSE SubSeq(rest, 1, bar - 1)
        after == IF bar = 0 THEN <<>> ELSE SubSeq(rest, bar + 1, Len(rest))
        bar2 == IndexOf(after, "|")
        part1 == IF bar2 = 0 THEN after ELSE SubSeq(after, 1, bar2 - 1)
    IN  [first |-> IF Strip(part0) # <<>> THEN Strip(part0) ELSE DEFAULT_SLOT_ONE,
         second |-> IF bar # 0 /\ Strip(part1) # <<>> THEN Strip(part1) ELSE DEFAULT_SLOT_TWO]

on_comment_gated(S, evt) ==
    LET body(S1, tk) ==
            LET text == evt.comment
                i == Len(S1.tasks) + 1
            IN  IF StartsWith(text, S_bang_battle)
                THEN IF S1.last_start.aware /\ ~CooldownOver(S1.last_start, now)
                     THEN Return(S1, i, tk, "done")
                     ELSE trigger_start(S1, i, tk, "command")
                ELSE IF StartsWith(text, S_bang_end) THEN trigger_end(S1, i, tk, "command")
                ELSE IF StartsWith(text, S_bang_slots)
                     THEN import_slots(S1, i, tk, SlotsCommandNames(text).first,
                                       SlotsCommandNames(text).second)
                ELSE maybe_trigger(S1, i, tk, text, <<>>)
    IN  Deduped(S, evt, "comment", body)

on_comment(S, evt) ==
    LET body(S1, tk) ==
            LET text == evt.comment
                i == Len(S1.tasks) + 1
            IN  IF StartsWith(text, S_bang_battle) THEN trigger_start(S1, i, tk, "command")
                ELSE IF StartsWith(text, S_bang_end) THEN trigger_end(S1, i, tk, "command")
                ELSE IF StartsWith(text, S_bang_slots)
                     THEN import_slots(S1, i, tk, SlotsCommandNames(text).first,
                                       SlotsCommandNames(text).second)
                ELSE maybe_trigger(S1, i, tk, text, <<>>)
    IN  Deduped(S, evt, "comment", body)

\* ---- the handlers, resumed at an await with the result of the call ----

\* trigger_start: the POST ended (ok or not); _sync_slots issues its GET.
after_start_post(S, i, ok) ==
    Await(S, i, S.tasks[i], "trigger_start:sync", StateCall)

\* trigger_start: the GET of _sync_slots ended; the caller goes on.
after_start_sync(S, i, resp) ==
    Continue([S EXCEPT !.slots = sync_slots(S.slots, resp)], i, S.tasks[i])

after_end_post(S, i, ok) ==
    Await(S, i, S.tasks[i], "trigger_end:sync", StateCall)

\* trigger_end: the GET ended; self._score_by_id = {}; the caller goes on.
after_end_sync(S, i, resp) ==
    Continue([S EXCEPT !.slots = sync_slots(S.slots, resp), !.score_by_id = EmptyMap],
             i, S.tasks[i])

after_import_post_unchecked(S, i, ok) ==
    LET tk == S.tasks[i]
        S1 == [S EXCEPT !.slots =
                   [slot_one |-> IF tk.one # <<>> THEN tk.one ELSE S.slots.slot_one,
                    slot_two |-> IF tk.two # <<>> THEN tk.two ELSE S.slots.slot_two]]
    IN  Await(S1, i, tk, "import_slots:sync", StateCall)

after_import_post_overwrites(S, i, ok) ==
    LET tk == S.tasks[i]
        S1 == IF ok
              THEN [S EXCEPT !.slots = [slot_one |-> tk.one, slot_two |-> tk.two]]
              ELSE S
    IN  Await(S1, i, tk, "import_slots:sync", StateCall)

\* import_slots: the POST ended; on success the bindings take the names.
after_import_post(S, i, ok) ==
    LET tk == S.tasks[i]
        S1 == IF ok
              THEN [S EXCEPT !.slots =
                        [slot_one |-> IF tk.one # <<>> THEN tk.one ELSE S.slots.slot_one,
                         slot_two |-> IF tk.two # <<>> THEN tk.two ELSE S.slots.slot_two]]
              ELSE S
    IN  Await(S1, i, tk, "import_slots:sync", StateCall)

after_import_sync(S, i, resp) ==
    Return([S EXCEPT !.slots = sync_slots(S.slots, resp)], i, S.tasks[i], "done")

\* _update_scores: the POST for slot_one ended.
after_score_one(S, i, ok) ==
    LET tk == S.tasks[i]
    IN  IF tk.d2 # 0
        THEN Await(S, i, tk, "update_scores:post_two", ScoreCall("slot_two", tk.d2))
        ELSE Return(S, i, tk, "done")

\* _update_scores: the POST for slot_two ended.
after_score_two(S, i, ok) == Return(S, i, S.tasks[i], "done")

after_gift_sync_stale(S, i, resp) ==
    [maybe_trigger(S, i, S.tasks[i], <<>>, S.tasks[i].evt.gift_name)
        EXCEPT !.slots = sync_slots(S.slots, resp)]

\* on_gift: the GET of the first _sync_slots ended; then _maybe_trigger on the
\* gift name.
after_gift_sync(S, i, resp) ==
    maybe_trigger([S EXCEPT !.slots = sync_slots(S.slots, resp)], i, S.tasks[i],
                  <<>>, S.tasks[i].evt.gift_name)

after_gift_post_if_ok(S, i, ok) ==
    LET tk == S.tasks[i]
        rid == NormalizeUserId(tk.evt.recipient)
        old == IF rid \in DOMAIN S.score_by_id THEN S.score_by_id[rid] ELSE 0
        S1 == [S EXCEPT !.last_scores[tk.slot] = @ + tk.value]
        S2 == IF rid # <<>>
              THEN [S1 EXCEPT !.score_by_id =
                        [k \in DOMAIN S.score_by_id \cup {rid} |->
                            IF k = rid THEN old + tk.value ELSE S.score_by_id[k]]]
              ELSE S1
    IN  Return(IF ok THEN S2 ELSE S, i, [tk EXCEPT !.prev = S.last_scores, !.led = old], "done")

after_gift_post_unrecorded(S, i, ok) ==
    LET tk == S.tasks[i]
        rid == NormalizeUserId(tk.evt.recipient)
        old == IF rid \in DOMAIN S.score_by_id THEN S.score_by_id[rid] ELSE 0
        S2 == IF rid # <<>>
              THEN [S EXCEPT !.score_by_id =
                        [k \in DOMAIN S.score_by_id \cup {rid} |->
                            IF k = rid THEN old + tk.value ELSE S.score_by_id[k]]]
              ELSE S
    IN  Return(S2, i, [tk EXCEPT !.prev = S.last_scores, !.led = old], "done")

\* _score_gift: the POST ended; the local bookkeeping follows.
after_gift_post(S, i, ok) ==
    LET tk == S.tasks[i]
        rid == NormalizeUserId(tk.evt.recipient)
        old == IF rid \in DOMAIN S.score_by_id THEN S.score_by_id[rid] ELSE 0
        S1 == [S EXCEPT !.last_scores[tk.slot] = @ + tk.value]
        S2 == IF rid # <<>>
              THEN [S1 EXCEPT !.score_by_id =
                        [k \in DOMAIN S.score_by_id \cup {rid} |->
                            IF k = rid THEN old + tk.value ELSE S.score_by_id[k]]]
              ELSE S1
    IN  Return(S2, i, [tk EXCEPT !.prev = S.last_scores, !.led = old], "done")

(***************************************************************************)
(* Battle Control API: the state the listener's calls act on               *)
(* (src/backend/state.py behind the endpoints of src/backend/main.py).     *)
(* None is written <<>>.                                                   *)
(***************************************************************************)

\* BattleState(): the fields the battle calls read or write.  end_time, an
\* Optional[float], is the set of at most one time: None is {}.
BattleState ==
    [active |-> FALSE, scores |-> ZeroScores, slot_one |-> <<>>, slot_two |-> <<>>,
     end_time |-> {}, library |-> EmptyMap]

\* BattleStateManager.start_battle
state_start_battle(b) == [b EXCEPT !.active = TRUE, !.end_time = {}, !.scores = ZeroScores]
state_end_battle_resets(b, t) ==
    [b EXCEPT !.active = FALSE, !.end_time = {t}, !.scores = ZeroScores]

\* BattleStateManager.end_battle at the time t read by time.time()
state_end_battle(b, t) == [b EXCEPT !.active = FALSE, !.end_time = {t}]
\* BattleStateManager.import_slots
state_import_slots(b, slot_one, slot_two) == [b EXCEPT !.slot_one = slot_one, !.slot_two = slot_two]
\* BattleStateManager.increment_score: the slots it accepts, and the state it
\* leaves; with any other slot it raises ValueError before it touches the state.
ValidSlots == {"slot_one", "slot_two"}
increment_score_raises(slot) == slot \notin ValidSlots
state_increment_score(b, slot, amount) ==
    IF increment_score_raises(slot) THEN b ELSE [b EXCEPT !.scores[slot] = @ + amount]

\* ---- the song library, BattleState.songs["library"]: song id -> metadata ----

\* An Optional[list] is the set of at most one list: None is {}.
OrEmpty(opt) == IF opt = {} THEN <<>> ELSE CHOOSE q \in opt : TRUE
\* set(lst)
SetOf(lst) == {lst[n] : n \in DOMAIN lst}
\* list(st): the elements of the set, each once, in any order.
ListsOf(st) ==
    {q \in [1..Cardinality(st) -> st] : SetOf(q) = st}
\* lib with lib[song_id] = meta
WithSong(lib, song_id, meta) ==
    [k \in DOMAIN lib \cup {song_id} |-> IF k = song_id THEN meta ELSE lib[k]]

clear_roles_keeps(roles, keep_song_id, lib) == {lib}

\* BattleStateManager._clear_roles: the libraries it can return, one for each
\* order in which list() enumerates the roles a song is left with.
clear_roles(roles, keep_song_id, lib) ==
    LET role_set == SetOf(roles)
        hit == {sid \in DOMAIN lib \ {keep_song_id} : SetOf(lib[sid].roles) \cap role_set # {}}
        left(sid) == ListsOf(SetOf(lib[sid].roles) \ role_set)
    IN  {[sid \in DOMAIN lib |->
             IF sid \in hit THEN [lib[sid] EXCEPT !.roles = pick[sid]] ELSE lib[sid]] :
         pick \in {f \in [hit -> UNION {left(sid) : sid \in hit}] :
                      \A sid \in hit : f[sid] \in left(sid)}}

\* BattleStateManager.register_song: the states it can leave.
state_register_song(b, req) ==
    LET roles_list == OrEmpty(req.roles)
        meta == [name |-> req.name, url |-> req.url,
                 dancers |-> OrEmpty(req.dancers),
                 front_dancers |-> OrEmpty(req.front_dancers),
                 mvp_dancers |-> OrEmpty(req.mvp_dancers),
                 roles |-> roles_list,
                 knows_song |-> OrEmpty(req.knows_song),
                 exclusive_mvp_for |-> <<>>]
        libs == IF roles_list # <<>>
                THEN clear_roles(roles_list, req.song_id, b.library)
                ELSE {b.library}
    IN  {[b EXCEPT !.library = WithSong(lib, req.song_id, meta)] : lib \in libs}

\* BattleStateManager.update_song_dancers: the states it can leave.
state_update_song_dancers(b, req) ==
    IF req.song_id \notin DOMAIN b.library THEN {b}
    ELSE LET libs == IF req.roles # {}
                     THEN clear_roles(OrEmpty(req.roles), req.song_id, b.library)
                     ELSE {b.library}
         IN  {[b EXCEPT !.library =
                  [lib EXCEPT ![req.song_id] =
                      [@ EXCEPT !.dancers = req.dancers,
                                !.front_dancers = req.front_dancers,
                                !.mvp_dancers = req.mvp_dancers,
                                !.roles = IF req.roles # {} THEN OrEmpty(req.roles) ELSE @,
                                !.knows_song = IF req.knows_song # {}
                                               THEN OrEmpty(req.knows_song) ELSE @]]] :
              lib \in libs}

\* BattleStateManager.rename_song
state_rename_song(b, song_id, name) ==
    IF song_id \in DOMAIN b.library
    THEN [b EXCEPT !.library[song_id].name = name]
    ELSE b

\* BattleStateManager.delete_song
state_delete_song(b, song_id) ==
    [b EXCEPT !.library = [k \in DOMAIN b.library \ {song_id} |-> b.library[k]]]

\* The endpoint a call reaches at time t, applied to the state.
Serve(b, call, t) ==
    CASE call.op = "POST battle/start" -> state_start_battle(b)
      [] call.op = "POST battle/end" -> state_end_battle(b, t)
      [] call.op = "POST battle/slots/import" -> state_import_slots(b, call.one, call.two)
      [] call.op = "POST score/add" -> state_increment_score(b, call.slot, call.amount)
      [] OTHER -> b

\* GET /state: asdict(BattleState) as JSON, as _sync_slots reads it: slot_one
\* and slot_two are strings or null, and there is no slot_one_name or
\* slot_two_name.
JsonName(v) == IF v = <<>> THEN [tag |-> "none", name |-> <<>>] ELSE [tag |-> "str", name |-> v]
get_state(b) ==
    [raises |-> FALSE, slot_one |-> JsonName(b.slot_one), slot_two |-> JsonName(b.slot_two),
     slot_one_name |-> <<>>, slot_two_name |-> <<>>]

\* What became of the listener's calls: clean tells whether every call that has
\* ended of the handler whose call ended last succeeded, and failed holds the
\* slots of its score adds that failed, while it is in progress; delivered is
\* the amount of the score adds that succeeded, per slot, since the last
\* trigger_start; lost holds the slots a score add of which failed since the
\* last trigger_start, in a handler that has returned, with no tally for the
\* slot handled since.
NoCalls == [clean |-> TRUE, failed |-> {}, delivered |-> ZeroScores, lost |-> {}]

\* The step that leads to S runs trigger_start.
RunsStart(S) ==
    /\ Len(S.tasks) >= Len(tasks)
    /\ \E j \in 1..Len(S.tasks) :
           /\ S.tasks[j].pc = "trigger_start:post"
           /\ j > Len(tasks) \/ tasks[j].pc # "trigger_start:post"
NoteStart(S, c) == IF RunsStart(S) THEN [c EXCEPT !.delivered = ZeroScores, !.lost = {}] ELSE c

(***************************************************************************)
(* Connection supervisor                                                   *)
(***************************************************************************)

\* str(exc).lower() of a generic exception, as the set of the signatures the
\* code searches for that occur in it.
Signatures == {"device_blocked", "rate_limit", "too many connections"}
Messages == {{}, {"device_blocked"}, {"rate_limit"}, {"too many connections"},
             {"device_blocked", "rate_limit"}}

BackoffAfterErrorDeviceOnly(msg, cur) ==
    IF "device_blocked" \in msg THEN RateLimitBackoff
    ELSE cur

\* except Exception branch of run(): the backoff after a generic exception
\* whose lowered message contains the signatures msg.
BackoffAfterError(msg, cur) ==
    IF "device_blocked" \in msg THEN RateLimitBackoff
    ELSE IF "rate_limit" \in msg \/ "too many connections" \in msg
         THEN Max(MaxBackoff, RateLimitBackoff)
    ELSE cur

NextBackoffUncapped(cur) == cur * 2

\* backoff = min(self._max_backoff, backoff * 2)
NextBackoff(cur) == Min(MaxBackoff, cur * 2)

\* The claims' classification of an outcome of connect().
IsBlockedMsg(msg) == msg \cap Signatures # {}
Exc(kind, msg) == [kind |-> kind, msg |-> msg]
IsBlocked(exc) ==
    \/ exc.kind = "WebcastBlocked200Error"
    \/ exc.kind = "Exception" /\ IsBlockedMsg(exc.msg)
Category(exc) ==
    IF exc.kind = "returned" THEN "clean"
    ELSE IF IsBlocked(exc) THEN "blocked"
    ELSE "generic"

Push(h, x) == IF Len(h) < MaxAttempts THEN Append(h, x) ELSE Append(Tail(h), x)

InitRun ==
    /\ run_pc = "connect"
    /\ backoff = BaseBackoff
    /\ breaking = FALSE
    /\ last_exc = Exc("none", {})
    /\ was_connected = FALSE
    /\ cancelled = FALSE
    /\ attempts = 1
    /\ history = <<>>
    /\ close_steps = <<>>
    /\ escaped = FALSE

\* await self.client.connect() returns: the session connected and ended cleanly.
ConnectReturns ==
    /\ run_pc = "connect"
    /\ backoff' = BaseBackoff
    /\ last_exc' = Exc("returned", {})
    /\ was_connected' = TRUE
    /\ run_pc' = "disconnect"
    /\ UNCHANGED <<breaking, cancelled, attempts, history, close_steps, escaped>>
    /\ UNCHANGED <<lisVars, wsVars>>

ConnectBlockedGivesUp ==
    /\ run_pc = "connect"
    /\ backoff' = RateLimitBackoff
    /\ last_exc' = Exc("WebcastBlocked200Error", {})
    /\ was_connected' = FALSE
    /\ run_pc' = "close_disconnect"
    /\ UNCHANGED <<breaking, cancelled, attempts, history, close_steps, escaped>>
    /\ UNCHANGED <<lisVars, wsVars>>

\* connect() raises WebcastBlocked200Error.
ConnectBlocked ==
    /\ run_pc = "connect"
    /\ backoff' = RateLimitBackoff
    /\ last_exc' = Exc("WebcastBlocked200Error", {})
    /\ was_connected' = FALSE
    /\ run_pc' = "disconnect"
    /\ UNCHANGED <<breaking, cancelled, attempts, history, close_steps, escaped>>
    /\ UNCHANGED <<lisVars, wsVars>>

\* connect() raises another Exception with message msg, before (conn = FALSE)
\* or after (conn = TRUE) the session had connected.
ConnectError(msg, conn) ==
    /\ run_pc = "connect"
    /\ backoff' = BackoffAfterError(msg, backoff)
    /\ last_exc' = Exc("Exception", msg)
    /\ was_connected' = conn
    /\ run_pc' = "disconnect"
    /\ UNCHANGED <<breaking, cancelled, attempts, history, close_steps, escaped>>
    /\ UNCHANGED <<lisVars, wsVars>>

\* A shutdown signal while connect() is in flight: except CancelledError, break.
ConnectCancelled ==
    /\ run_pc = "connect"
    /\ ~cancelled
    /\ cancelled' = TRUE
    /\ breaking' = TRUE
    /\ run_pc' = "disconnect"
    /\ UNCHANGED <<backoff, last_exc, was_connected, attempts, history, close_steps, escaped>>
    /\ UNCHANGED <<lisVars, wsVars>>

\* finally: await self.client.disconnect() ends (an Exception it raises is
\* swallowed); then the pending break leaves run(), else the sleep starts.
DisconnectDone(err) ==
    /\ run_pc = "disconnect"
    /\ IF breaking
       THEN /\ run_pc' = "close_disconnect"
            /\ UNCHANGED history
       ELSE /\ run_pc' = "sleep"
            /\ history' = Push(history, [outcome |-> Category(last_exc), wait |-> backoff])
    /\ UNCHANGED <<backoff, breaking, last_exc, was_connected, cancelled, attempts,
                   close_steps, escaped>>
    /\ UNCHANGED <<lisVars, wsVars>>

\* A shutdown signal while disconnect() is awaited in the finally clause:
\* CancelledError is no Exception, it leaves run() and main() catches it.
DisconnectCancelled ==
    /\ run_pc = "disconnect"
    /\ ~cancelled
    /\ cancelled' = TRUE
    /\ run_pc' = "close_disconnect"
    /\ UNCHANGED <<backoff, breaking, last_exc, was_connected, attempts, history,
                   close_steps, escaped>>
    /\ UNCHANGED <<lisVars, wsVars>>

\* await asyncio.sleep(backoff) completes; backoff doubles; next attempt.
SleepDone ==
    /\ run_pc = "sleep"
    /\ backoff' = NextBackoff(backoff)
    /\ attempts' = Min(attempts + 1, MaxAttempts + 1)
    /\ run_pc' = "connect"
    /\ UNCHANGED <<breaking, last_exc, was_connected, cancelled, history, close_steps, escaped>>
    /\ UNCHANGED <<lisVars, wsVars>>

\* A shutdown signal while the backoff sleep is pending: break.
SleepCancelled ==
    /\ run_pc = "sleep"
    /\ ~cancelled
    /\ cancelled' = TRUE
    /\ run_pc' = "close_disconnect"
    /\ UNCHANGED <<backoff, breaking, last_exc, was_connected, attempts, history,
                   close_steps, escaped>>
    /\ UNCHANGED <<lisVars, wsVars>>

CloseDisconnectPropagates(err) ==
    /\ run_pc = "close_disconnect"
    /\ close_steps' = Append(close_steps, [step |-> "disconnect", raised |-> err])
    /\ run_pc' = IF err THEN "exited" ELSE "close_http"
    /\ escaped' = (escaped \/ err)
    /\ UNCHANGED <<backoff, breaking, last_exc, was_connected, cancelled, attempts, history>>
    /\ UNCHANGED <<lisVars, wsVars>>

\* close(): await self.client.disconnect(), an Exception swallowed.
CloseDisconnect(err) ==
    /\ run_pc = "close_disconnect"
    /\ close_steps' = Append(close_steps, [step |-> "disconnect", raised |-> err])
    /\ run_pc' = "close_http"
    /\ UNCHANGED <<backoff, breaking, last_exc, was_connected, cancelled, attempts,
                   history, escaped>>
    /\ UNCHANGED <<lisVars, wsVars>>

\* close(): await self.http.aclose(), an Exception swallowed; main() returns.
CloseHttp(err) ==
    /\ run_pc = "close_http"
    /\ close_steps' = Append(close_steps, [step |-> "aclose", raised |-> err])
    /\ run_pc' = "exited"
    /\ UNCHANGED <<backoff, breaking, last_exc, was_connected, cancelled, attempts,
                   history, escaped>>
    /\ UNCHANGED <<lisVars, wsVars>>

NextRun ==
    \/ ConnectReturns
    \/ ConnectBlocked
    \/ \E msg \in Messages, conn \in BOOLEAN : ConnectError(msg, conn)
    \/ ConnectCancelled
    \/ \E err \in BOOLEAN : DisconnectDone(err)
    \/ DisconnectCancelled
    \/ SleepDone
    \/ SleepCancelled
    \/ \E err \in BOOLEAN : CloseDisconnect(err)
    \/ \E err \in BOOLEAN : CloseHttp(err)

(***************************************************************************)
(* Actions of the listener                                                 *)
(***************************************************************************)

InitListener ==
    /\ now = 0
    /\ seen = EmptyMap
    /\ last_start = DatetimeMin
    /\ last_end = DatetimeMin
    /\ last_scores = ZeroScores
    /\ score_by_id = EmptyMap
    /\ slots = [slot_one |-> DEFAULT_SLOT_ONE, slot_two |-> DEFAULT_SLOT_TWO]
    /\ tasks = <<>>
    /\ fin = NoTask
    /\ api = BattleState
    /\ calls = NoCalls

\* Time passes.
Tick(d) ==
    /\ now + d <= MaxTime
    /\ now' = now + d
    /\ UNCHANGED <<seen, last_start, last_end, last_scores, score_by_id, slots, tasks, fin>>
    /\ UNCHANGED <<api, calls>>
    /\ UNCHANGED <<runVars, wsVars>>

\* The feed delivers an event and its handler runs to its first await; cap is
\* the number of handlers that may be in progress at the same time.
Delivers(S, cap) ==
    /\ Len(tasks) < cap
    /\ Apply(S)
    /\ calls' = NoteStart(S, calls)
    /\ UNCHANGED <<now, api>>
    /\ UNCHANGED <<runVars, wsVars>>

OnBattle(e, cap) == e.kind = "battle" /\ Delivers(on_battle(Cur, e), cap)
OnBattleNotice(e, cap) == e.kind = "battle_notice" /\ Delivers(on_battle_notice(Cur, e), cap)
OnBattleVictory(e, cap) == e.kind = "battle_victory" /\ Delivers(on_battle_victory(Cur, e), cap)
OnBattlePunishFinish(e, cap) == e.kind = "battle_end" /\ Delivers(on_battle_punish_finish(Cur, e), cap)
OnLinkState(e, cap) == e.kind = "link_state" /\ Delivers(on_link_state(Cur, e), cap)
OnControl(e, cap) == e.kind = "control" /\ Delivers(on_control(Cur, e), cap)
OnArmies(e, cap) == e.kind = "armies" /\ Delivers(on_armies(Cur, e), cap)
OnComment(e, cap) == e.kind = "comment" /\ Delivers(on_comment(Cur, e), cap)
\* import_slots(slot_one, slot_two) called on the listener, not by a handler.
CallImportSlots(slot_one, slot_two, cap) ==
    /\ cap > 0
    /\ Delivers(import_slots(Cur, Len(tasks) + 1, NewTask(Cur, Event("import_slots")),
                             slot_one, slot_two), cap)
OnGift(e, cap) ==
    /\ e.kind = "gift"
    /\ last_scores.slot_one + GiftValue(e) <= MaxScore
    /\ last_scores.slot_two + GiftValue(e) <= MaxScore
    /\ \A r \in DOMAIN score_by_id : score_by_id[r] + GiftValue(e) <= MaxScore
    /\ Delivers(on_gift(Cur, e), cap)

\* The call awaited by handler i at the await named pc ends and the handler runs
\* to its next await.
Resumes(i, pc, S) ==
    /\ i \in 1..Len(tasks)
    /\ tasks[i].pc = pc
    /\ Apply(S)
    /\ calls' = NoteStart(S, calls)
    /\ UNCHANGED <<now, api>>
    /\ UNCHANGED <<runVars, wsVars>>

StartPosted(i, ok) ==
    /\ ok \in BOOLEAN
    /\ Resumes(i, "trigger_start:post", after_start_post(Cur, i, ok))
StartSynced(i, resp) ==
    /\ resp.raises \in BOOLEAN
    /\ Resumes(i, "trigger_start:sync", after_start_sync(Cur, i, resp))
EndPosted(i, ok) ==
    /\ ok \in BOOLEAN
    /\ Resumes(i, "trigger_end:post", after_end_post(Cur, i, ok))
EndSynced(i, resp) ==
    /\ resp.raises \in BOOLEAN
    /\ Resumes(i, "trigger_end:sync", after_end_sync(Cur, i, resp))
ImportPosted(i, ok) ==
    /\ ok \in BOOLEAN
    /\ Resumes(i, "import_slots:post", after_import_post(Cur, i, ok))
ImportSynced(i, resp) ==
    /\ resp.raises \in BOOLEAN
    /\ Resumes(i, "import_slots:sync", after_import_sync(Cur, i, resp))
ScoreOnePosted(i, ok) ==
    /\ ok \in BOOLEAN
    /\ Resumes(i, "update_scores:post_one", after_score_one(Cur, i, ok))
ScoreTwoPosted(i, ok) ==
    /\ ok \in BOOLEAN
    /\ Resumes(i, "update_scores:post_two", after_score_two(Cur, i, ok))
GiftSynced(i, resp) ==
    /\ resp.raises \in BOOLEAN
    /\ Resumes(i, "on_gift:sync", after_gift_sync(Cur, i, resp))
GiftPosted(i, ok) ==
    /\ ok \in BOOLEAN
    /\ Resumes(i, "score_gift:post", after_gift_post(Cur, i, ok))

\* ---- inputs ----

Str1(a) == <<a>>
Str2(a, b) == <<a, b>>
S_anna == <<"a", "n", "n", "a">>

ArmiesEvent(id, one, two) == [WithId(Event("armies"), id) EXCEPT !.armies = <<one, two>>]
GiftEvent(id, name, repeat, diamonds, to) ==
    [WithId(Event("gift"), id) EXCEPT !.gift_name = name, !.repeat_count = repeat,
                                    !.diamond_count = diamonds, !.recipient = to]
CommentEvent(id, user, text) ==
    [WithId(Event("comment"), id) EXCEPT !.user = user, !.comment = text]

NoVal == [tag |-> "none", name |-> <<>>]
StrVal(s) == [tag |-> "str", name |-> s]
DictVal(s) == [tag |-> "dict", name |-> s]
SyncFails ==
    [raises |-> TRUE, slot_one |-> NoVal, slot_two |-> NoVal,
     slot_one_name |-> <<>>, slot_two_name |-> <<>>]
SyncData(one, two) == [SyncFails EXCEPT !.raises = FALSE, !.slot_one = one, !.slot_two = two]

\* ---- the calls served by the Battle Control API ----

SlotNames == {"slot_one", "slot_two"}

\* The cumulative a tally event reports for a slot (0: none).
TallyFor(evt, slot) ==
    IF slot = "slot_one" THEN (IF Len(evt.armies) > 0 THEN evt.armies[1] ELSE 0)
    ELSE (IF Len(evt.armies) > 1 THEN evt.armies[2] ELSE 0)

\* The call awaited by handler i at the await named pc ends: it has reached its
\* endpoint and been served (ok), or it has failed without reaching it; S is
\* the listener once the handler has run on to its next await.
Served(i, pc, ok, S) ==
    /\ i \in 1..Len(tasks)
    /\ tasks[i].pc = pc
    /\ LET out == tasks[i].out
           call == out[Len(out)]
           first == Len(out) = 1
           scored == call.op = "POST score/add"
           failed == (IF first THEN {} ELSE calls.failed)
                         \cup (IF scored /\ ~ok THEN {call.slot} ELSE {})
           c0 == NoteStart(S, calls)
           c1 == [c0 EXCEPT !.clean = (first \/ @) /\ ok,
                            !.failed = failed,
                            !.delivered = IF scored /\ ok
                                          THEN [@ EXCEPT ![call.slot] = @ + call.amount]
                                          ELSE @]
           tallied == IF tasks[i].kind = "armies"
                      THEN {sl \in SlotNames : TallyFor(tasks[i].evt, sl) # 0}
                      ELSE {}
       IN  /\ ok => \A sl \in SlotNames : Serve(api, call, now).scores[sl] <= MaxApiScore
           /\ api' = IF ok THEN Serve(api, call, now) ELSE api
           /\ calls' = IF Len(S.tasks) < Len(tasks)
                       THEN [c1 EXCEPT !.lost = (@ \ tallied) \cup failed, !.failed = {}]
                       ELSE c1
    /\ Apply(S)
    /\ UNCHANGED now
    /\ UNCHANGED <<runVars, wsVars>>

\* The state pull of _sync_slots as it ends: the state of the API, or a failure.
Pulled(ok) == IF ok THEN get_state(api) ELSE SyncFails

ApiStart(i, ok) ==
    /\ ok \in BOOLEAN
    /\ Served(i, "trigger_start:post", ok, after_start_post(Cur, i, ok))
ApiStartState(i, ok) ==
    /\ ok \in BOOLEAN
    /\ Served(i, "trigger_start:sync", ok, after_start_sync(Cur, i, Pulled(ok)))
ApiEnd(i, ok) ==
    /\ ok \in BOOLEAN
    /\ Served(i, "trigger_end:post", ok, after_end_post(Cur, i, ok))
ApiEndState(i, ok) ==
    /\ ok \in BOOLEAN
    /\ Served(i, "trigger_end:sync", ok, after_end_sync(Cur, i, Pulled(ok)))
ApiImport(i, ok) ==
    /\ ok \in BOOLEAN
    /\ Served(i, "import_slots:post", ok, after_import_post(Cur, i, ok))
ApiImportState(i, ok) ==
    /\ ok \in BOOLEAN
    /\ Served(i, "import_slots:sync", ok, after_import_sync(Cur, i, Pulled(ok)))
ApiScoreOne(i, ok) ==
    /\ ok \in BOOLEAN
    /\ Served(i, "update_scores:post_one", ok, after_score_one(Cur, i, ok))
ApiScoreTwo(i, ok) ==
    /\ ok \in BOOLEAN
    /\ Served(i, "update_scores:post_two", ok, after_score_two(Cur, i, ok))
ApiGiftState(i, ok) ==
    /\ ok \in BOOLEAN
    /\ Served(i, "on_gift:sync", ok, after_gift_sync(Cur, i, Pulled(ok)))
ApiGiftScore(i, ok) ==
    /\ ok \in BOOLEAN
    /\ Served(i, "score_gift:post", ok, after_gift_post(Cur, i, ok))

\* Another client of the API (the control panel) imports the slots.
PanelImport(slot_one, slot_two) ==
    /\ api' = state_import_slots(api, slot_one, slot_two)
    /\ api' # api
    /\ UNCHANGED <<now, seen, last_start, last_end, last_scores, score_by_id, slots, tasks, fin,
                   calls>>
    /\ UNCHANGED <<runVars, wsVars>>

\* ---- the websocket manager ----

WebSockets == {"w1", "w2", "w3"}
MaxBroadcasts == 2

\* A broadcast(): snap is list(self.connections), n the position in it of the
\* send awaited, to_remove the local list; sent, dropped and pruned record
\* which sends succeeded and which connections disconnect() or another
\* broadcast has removed from the registry since this broadcast began.
NoBroadcast ==
    [snap |-> <<>>, n |-> 0, to_remove |-> <<>>, sent |-> {}, dropped |-> {}, pruned |-> {}]

InitWebsockets ==
    /\ connections = <<>>
    /\ sockets = [w \in WebSockets |-> "new"]
    /\ broadcasts = <<>>
    /\ completed = NoBroadcast
    /\ ws_raised = FALSE

\* list.remove(x): removes the first x, and raises ValueError if there is none.
list_remove(lst, x) ==
    IF x \in SetOf(lst)
    THEN LET k == CHOOSE k \in DOMAIN lst : lst[k] = x /\ \A j \in 1..(k - 1) : lst[j] # x
         IN  [raises |-> FALSE, list |-> SubSeq(lst, 1, k - 1) \o SubSeq(lst, k + 1, Len(lst))]
    ELSE [raises |-> TRUE, list |-> lst]

remove_if_present_unchecked(lst, x) == list_remove(lst, x)

\* if websocket in self.connections: self.connections.remove(websocket)
remove_if_present(lst, x) ==
    IF x \in SetOf(lst) THEN list_remove(lst, x) ELSE [raises |-> FALSE, list |-> lst]

\* The loop over to_remove that ends broadcast(): it stops where remove raises.
RECURSIVE prune(_, _)
prune(lst, to_remove) ==
    IF to_remove = <<>> THEN [raises |-> FALSE, list |-> lst]
    ELSE LET r == remove_if_present(lst, Head(to_remove))
         IN  IF r.raises THEN r ELSE prune(r.list, Tail(to_remove))

\* The running broadcasts once the connections of gone have left the registry
\* by disconnect() (field "dropped") or by another broadcast (field "pruned").
Noting(bs, field, gone) ==
    [k \in DOMAIN bs |->
        IF field = "dropped" THEN [bs[k] EXCEPT !.dropped = @ \cup gone]
        ELSE [bs[k] EXCEPT !.pruned = @ \cup gone]]

ManagerOnly == UNCHANGED <<runVars, lisVars>>

\* websocket_endpoint calls connect(), which awaits websocket.accept().
WsConnect(w) ==
    /\ sockets[w] = "new"
    /\ sockets' = [sockets EXCEPT ![w] = "accepting"]
    /\ UNCHANGED <<connections, broadcasts, completed, ws_raised>>
    /\ ManagerOnly
\* accept() returns: connect() registers the websocket and returns; or accept()
\* raises and the endpoint ends.
WsAccepted(w, ok) ==
    /\ sockets[w] = "accepting"
    /\ sockets' = [sockets EXCEPT ![w] = IF ok THEN "connected" ELSE "closed"]
    /\ connections' = IF ok THEN Append(connections, w) ELSE connections
    /\ UNCHANGED <<broadcasts, completed, ws_raised>>
    /\ ManagerOnly
\* The endpoint gets WebSocketDisconnect and calls disconnect().
WsDisconnect(w) ==
    /\ sockets[w] = "connected"
    /\ LET r == remove_if_present(connections, w)
       IN  /\ connections' = r.list
           /\ ws_raised' = (ws_raised \/ r.raises)
           /\ broadcasts' = Noting(broadcasts, "dropped", SetOf(connections) \ SetOf(r.list))
    /\ sockets' = [sockets EXCEPT ![w] = "closed"]
    /\ UNCHANGED completed
    /\ ManagerOnly
\* broadcast() is called: it returns at once if nobody is registered, and else
\* runs up to its first send.
BroadcastStarts ==
    /\ Len(broadcasts) < MaxBroadcasts
    /\ IF connections = <<>>
       THEN /\ completed' = NoBroadcast
            /\ UNCHANGED broadcasts
       ELSE /\ broadcasts' = Append(broadcasts, [NoBroadcast EXCEPT !.snap = connections, !.n = 1])
            /\ UNCHANGED completed
    /\ UNCHANGED <<connections, sockets, ws_raised>>
    /\ ManagerOnly
\* The send awaited by broadcast i returns (ok) or raises: the broadcast runs on
\* to its next send, or through the removal of to_remove to its end.
SendEnds(i, ok) ==
    /\ i \in DOMAIN broadcasts
    /\ LET b == broadcasts[i]
           ws == b.snap[b.n]
           b1 == [b EXCEPT !.to_remove = IF ok THEN @ ELSE Append(@, ws),
                           !.sent = IF ok THEN @ \cup {ws} ELSE @]
           rest == [k \in 1..(Len(broadcasts) - 1) |->
                       IF k < i THEN broadcasts[k] ELSE broadcasts[k + 1]]
           r == prune(connections, b1.to_remove)
       IN  IF b.n < Len(b.snap)
           THEN /\ broadcasts' = [broadcasts EXCEPT ![i] = [b1 EXCEPT !.n = @ + 1]]
                /\ UNCHANGED <<connections, completed, ws_raised>>
           ELSE /\ connections' = r.list
                /\ ws_raised' = (ws_raised \/ r.raises)
                /\ completed' = b1
                /\ broadcasts' = Noting(rest, "pruned", SetOf(connections) \ SetOf(r.list))
    /\ UNCHANGED sockets
    /\ ManagerOnly

\* Websockets connect and disconnect while state is broadcast.
NextWebsockets ==
    \/ \E w \in WebSockets : WsConnect(w)
    \/ \E w \in WebSockets, ok \in BOOLEAN : WsAccepted(w, ok)
    \/ \E w \in WebSockets : WsDisconnect(w)
    \/ BroadcastStarts
    \/ \E i \in 1..MaxBroadcasts, ok \in BOOLEAN : SendEnds(i, ok)

\* ---- the endpoints of the API called by any client ----

\* str.lower() on the slot tokens the model sends.
LowerToken(raw) == IF raw = "Alpha" THEN "alpha" ELSE raw
\* _normalize_slot
normalize_slot(raw) ==
    LET token == LowerToken(raw)
    IN  IF token \in {"1", "one", "slot1", "slot_one", "a", "alpha"} THEN "slot_one"
        ELSE IF token \in {"2", "two", "slot2", "slot_two", "b", "beta"} THEN "slot_two"
        ELSE raw

\* What the other fields of the listener and of the supervisor do while a
\* client calls the API: nothing.
ClientOnly ==
    /\ UNCHANGED <<now, seen, last_start, last_end, last_scores, score_by_id, slots, tasks, fin>>
    /\ UNCHANGED <<runVars, wsVars>>

\* POST /battle/start
PostBattleStart ==
    /\ api' = state_start_battle(api)
    /\ calls' = NoCalls
    /\ ClientOnly
\* POST /battle/end
PostBattleEnd ==
    /\ api' = state_end_battle(api, now)
    /\ UNCHANGED calls
    /\ ClientOnly
\* POST /score/{slot}/add with body amount: the add is recorded as delivered,
\* or, when increment_score raises, as failed under the slot it was sent to.
PostScoreAdd(raw, amount) ==
    LET slot == normalize_slot(raw)
    IN  /\ \A sl \in ValidSlots : state_increment_score(api, slot, amount).scores[sl] <= MaxApiScore
        /\ api' = state_increment_score(api, slot, amount)
        /\ calls' = IF increment_score_raises(slot)
                    THEN [calls EXCEPT !.clean = FALSE, !.failed = @ \cup {slot}]
                    ELSE [calls EXCEPT !.delivered[slot] = @ + amount]
        /\ ClientOnly

TallyEvents ==
    {ArmiesEvent(Str2("a", "1"), 10, 4), ArmiesEvent(<<>>, 10, 9), ArmiesEvent(<<>>, 3, 0)}
BattleEvents == {Event("battle")}
EndEvents == {Event("battle_end")}
CommentEvents == {CommentEvent(<<>>, <<"b", "o", "b">>, S_bang_battle)}
GiftEvents ==
    {GiftEvent(<<>>, <<"R", "o", "s", "e">>, 3, 5, S_anna),
     GiftEvent(<<>>, <<"R", "o", "s", "e">>, -1, 5, S_anna)}
SyncResponses ==
    {SyncFails, SyncData(DictVal(<<"a", "n", "n">>), DictVal(S_anna))}
Ticks == {20}

Init == InitRun /\ InitListener /\ InitWebsockets

\* The positions of the handlers that may be suspended at the same time.
Handlers == 1..MaxPending

\* Events handled one after another: the next event is delivered once the
\* handler of the previous one has returned.
Next ==
    \/ \E d \in Ticks : Tick(d)
    \/ \E e \in BattleEvents : OnBattle(e, 1)
    \/ \E e \in TallyEvents : OnArmies(e, 1)
    \/ \E e \in GiftEvents : OnGift(e, 1)
    \/ \E e \in CommentEvents : OnComment(e, 1)
    \/ \E i \in Handlers, ok \in BOOLEAN : StartPosted(i, ok)
    \/ \E i \in Handlers, resp \in SyncResponses : StartSynced(i, resp)
    \/ \E i \in Handlers, ok \in BOOLEAN : ScoreOnePosted(i, ok)
    \/ \E i \in Handlers, ok \in BOOLEAN : ScoreTwoPosted(i, ok)
    \/ \E i \in Handlers, resp \in SyncResponses : GiftSynced(i, resp)
    \/ \E i \in Handlers, ok \in BOOLEAN : GiftPosted(i, ok)

Spec == Init /\ [][Next]_vars

\* Handlers interleaved: an event is delivered while the handlers of earlier
\* ones, at most MaxPending - 1 of them, are suspended in an outbound call.
ConcTallyEvents == {ArmiesEvent(<<>>, 10, 9), ArmiesEvent(<<>>, 3, 0)}
ConcGiftEvents == GiftEvents
ConcSyncResponses == {SyncFails}

NextConc ==
    \/ \E d \in Ticks : Tick(d)
    \/ \E e \in BattleEvents : OnBattle(e, MaxPending)
    \/ \E e \in ConcTallyEvents : OnArmies(e, MaxPending)
    \/ \E e \in ConcGiftEvents : OnGift(e, MaxPending)
    \/ \E i \in Handlers, ok \in BOOLEAN : StartPosted(i, ok)
    \/ \E i \in Handlers, resp \in ConcSyncResponses : StartSynced(i, resp)
    \/ \E i \in Handlers, ok \in BOOLEAN : ScoreOnePosted(i, ok)
    \/ \E i \in Handlers, ok \in BOOLEAN : ScoreTwoPosted(i, ok)
    \/ \E i \in Handlers, resp \in ConcSyncResponses : GiftSynced(i, resp)
    \/ \E i \in Handlers, ok \in BOOLEAN : GiftPosted(i, ok)

SpecConc == Init /\ [][NextConc]_vars

\* Gifts of every shape of value, to recipients that match a slot exactly, by
\* containment or not at all, with gift names the heuristic matches, while the
\* state pull rebinds the slots; events handled one after another.
S_ann == <<"a", "n", "n">>
S_Rose == <<"R", "o", "s", "e">>
S_Whistle == <<"W", "h", "i", "s", "t", "l", "e">>
GiftShapes ==
    {GiftEvent(<<>>, S_Rose, 3, 5, <<"@", "A", "n", "n", "a", " ">>),
     GiftEvent(<<>>, S_Rose, 0, 5, S_ann),
     GiftEvent(<<>>, S_Rose, 3, 0, S_anna),
     GiftEvent(<<>>, S_Rose, 0, 5, <<"b", "o", "b">>),
     GiftEvent(<<>>, S_Rose, 0, 5, <<>>),
     GiftEvent(<<>>, S_Whistle, 3, 5, S_anna),
     GiftEvent(<<>>, S_battle, 0, 0, S_anna)}
GiftSyncResponses ==
    {SyncFails,
     SyncData(DictVal(S_ann), DictVal(S_anna)),
     SyncData(DictVal(S_anna), DictVal(S_anna))}

NextGift ==
    \/ \E d \in Ticks : Tick(d)
    \/ \E e \in BattleEvents : OnBattle(e, 1)
    \/ \E e \in EndEvents : OnBattlePunishFinish(e, 1)
    \/ \E e \in GiftShapes : OnGift(e, 1)
    \/ \E i \in Handlers, ok \in BOOLEAN : StartPosted(i, ok)
    \/ \E i \in Handlers, resp \in {SyncFails} : StartSynced(i, resp)
    \/ \E i \in Handlers, ok \in BOOLEAN : EndPosted(i, ok)
    \/ \E i \in Handlers, resp \in {SyncFails} : EndSynced(i, resp)
    \/ \E i \in Handlers, resp \in GiftSyncResponses : GiftSynced(i, resp)
    \/ \E i \in Handlers, ok \in BOOLEAN : GiftPosted(i, ok)

SpecGift == Init /\ [][NextGift]_vars

\* Explicit lifecycle signals: the commands of the operator and the structured
\* events of the feed, handlers interleaved.
S_bob == <<"b", "o", "b">>
ExplicitComments == {CommentEvent(<<>>, S_bob, S_bang_battle), CommentEvent(<<>>, S_bob, S_bang_end)}
ExplicitEvents ==
    {Event("battle"), Event("battle_notice"), Event("battle_victory"), Event("battle_end")}

NextExplicit ==
    \/ \E d \in Ticks : Tick(d)
    \/ \E e \in ExplicitEvents : OnBattle(e, MaxPending)
    \/ \E e \in ExplicitEvents : OnBattleNotice(e, MaxPending)
    \/ \E e \in ExplicitEvents : OnBattleVictory(e, MaxPending)
    \/ \E e \in ExplicitEvents : OnBattlePunishFinish(e, MaxPending)
    \/ \E e \in ExplicitComments : OnComment(e, MaxPending)
    \/ \E i \in Handlers, ok \in BOOLEAN : StartPosted(i, ok)
    \/ \E i \in Handlers, resp \in {SyncFails} : StartSynced(i, resp)
    \/ \E i \in Handlers, ok \in BOOLEAN : EndPosted(i, ok)
    \/ \E i \in Handlers, resp \in {SyncFails} : EndSynced(i, resp)

SpecExplicit == Init /\ [][NextExplicit]_vars

\* Comments and gift names the heuristic looks at, between starts and ends of
\* every origin, handlers interleaved.
S_nice_battle == <<"n", "i", "c", "e", " ", "b", "a", "t", "t", "l", "e">>
HeuristicComments ==
    {CommentEvent(<<>>, S_bob, S_start_battle), CommentEvent(<<>>, S_bob, S_gg)}
HeuristicGifts == {GiftEvent(<<>>, S_battle, 0, 0, <<>>)}
HeuristicTallies == {ArmiesEvent(<<>>, 0, 0)}

NextHeuristic ==
    \/ \E d \in Ticks : Tick(d)
    \/ \E e \in BattleEvents : OnBattle(e, MaxPending)
    \/ \E e \in EndEvents : OnBattlePunishFinish(e, MaxPending)
    \/ \E e \in HeuristicTallies : OnArmies(e, MaxPending)
    \/ \E e \in HeuristicGifts : OnGift(e, MaxPending)
    \/ \E e \in HeuristicComments : OnComment(e, MaxPending)
    \/ \E i \in Handlers, ok \in BOOLEAN : StartPosted(i, ok)
    \/ \E i \in Handlers, resp \in {SyncFails} : StartSynced(i, resp)
    \/ \E i \in Handlers, ok \in BOOLEAN : EndPosted(i, ok)
    \/ \E i \in Handlers, resp \in {SyncFails} : EndSynced(i, resp)
    \/ \E i \in Handlers, resp \in {SyncFails} : GiftSynced(i, resp)

SpecHeuristic == Init /\ [][NextHeuristic]_vars

\* Events whose content matches a start rule and an end rule at once (a
\* link-state description, a control action, a command, a chat line, a gift
\* name), and one that matches an end rule only, between starts and ends that
\* stamp the cooldown clocks; events handled one after another.
LinkStateEvent(state) == [Event("link_state") EXCEPT !.state = state]
ControlEvent(action) == [Event("control") EXCEPT !.action = action]
RuleLinkStates ==
    {LinkStateEvent(S_battle \o S_start \o S_end), LinkStateEvent(S_battle \o S_exit)}
RuleControls == {ControlEvent(S_battle \o S_begin \o S_stop)}
RuleComments ==
    {CommentEvent(<<>>, S_bob, S_bang_battle \o S_bang_end),
     CommentEvent(<<>>, S_bob, S_start_battle \o S_bang_end)}
RuleGifts == {GiftEvent(<<>>, S_battle \o S_whistle, 0, 0, <<>>)}

NextRules ==
    \/ \E d \in Ticks : Tick(d)
    \/ \E e \in BattleEvents : OnBattle(e, 1)
    \/ \E e \in EndEvents : OnBattlePunishFinish(e, 1)
    \/ \E e \in RuleLinkStates : OnLinkState(e, 1)
    \/ \E e \in RuleControls : OnControl(e, 1)
    \/ \E e \in RuleComments : OnComment(e, 1)
    \/ \E e \in RuleGifts : OnGift(e, 1)
    \/ \E i \in Handlers, ok \in BOOLEAN : StartPosted(i, ok)
    \/ \E i \in Handlers, resp \in {SyncFails} : StartSynced(i, resp)
    \/ \E i \in Handlers, ok \in BOOLEAN : EndPosted(i, ok)
    \/ \E i \in Handlers, resp \in {SyncFails} : EndSynced(i, resp)
    \/ \E i \in Handlers, resp \in {SyncFails} : GiftSynced(i, resp)

SpecRules == Init /\ [][NextRules]_vars

\* Starts and ends of every origin (battle events, a tally, link-state and
\* control descriptions, commands, gift names seen by the heuristic), with gifts
\* that fill the ledger and the scores in between; events handled one after
\* another.
OriginLinkStates ==
    {LinkStateEvent(S_battle \o S_start), LinkStateEvent(S_battle \o S_exit)}
OriginControls == {ControlEvent(S_battle \o S_begin), ControlEvent(S_battle \o S_stop)}
OriginComments ==
    {CommentEvent(<<>>, S_bob, S_bang_battle), CommentEvent(<<>>, S_bob, S_bang_end)}
OriginGifts ==
    {GiftEvent(<<>>, S_battle, 0, 0, <<>>), GiftEvent(<<>>, S_whistle, 3, 5, S_anna)}
OriginTallies == {ArmiesEvent(<<>>, 10, 9)}
NoticeEvents == {Event("battle_notice")}
VictoryEvents == {Event("battle_victory")}

NextOrigins ==
    \/ \E d \in Ticks : Tick(d)
    \/ \E e \in BattleEvents : OnBattle(e, 1)
    \/ \E e \in NoticeEvents : OnBattleNotice(e, 1)
    \/ \E e \in VictoryEvents : OnBattleVictory(e, 1)
    \/ \E e \in EndEvents : OnBattlePunishFinish(e, 1)
    \/ \E e \in OriginTallies : OnArmies(e, 1)
    \/ \E e \in OriginLinkStates : OnLinkState(e, 1)
    \/ \E e \in OriginControls : OnControl(e, 1)
    \/ \E e \in OriginComments : OnComment(e, 1)
    \/ \E e \in OriginGifts : OnGift(e, 1)
    \/ \E i \in Handlers, ok \in BOOLEAN : StartPosted(i, ok)
    \/ \E i \in Handlers, resp \in {SyncFails} : StartSynced(i, resp)
    \/ \E i \in Handlers, ok \in BOOLEAN : EndPosted(i, ok)
    \/ \E i \in Handlers, resp \in {SyncFails} : EndSynced(i, resp)
    \/ \E i \in Handlers, ok \in BOOLEAN : ScoreOnePosted(i, ok)
    \/ \E i \in Handlers, ok \in BOOLEAN : ScoreTwoPosted(i, ok)
    \/ \E i \in Handlers, resp \in {SyncFails} : GiftSynced(i, resp)
    \/ \E i \in Handlers, ok \in BOOLEAN : GiftPosted(i, ok)

SpecOrigins == Init /\ [][NextOrigins]_vars

\* A feed whose tally for slot one dips and recovers (a stream restart), between
\* explicit starts; every call reaches the API and is served, events handled one
\* after another.
DipTallies == {ArmiesEvent(<<>>, 10, 9), ArmiesEvent(<<>>, 4, 9)}

NextDip ==
    \/ \E d \in Ticks : Tick(d)
    \/ \E e \in BattleEvents : OnBattle(e, 1)
    \/ \E e \in DipTallies : OnArmies(e, 1)
    \/ \E i \in Handlers : ApiStart(i, TRUE)
    \/ \E i \in Handlers : ApiStartState(i, TRUE)
    \/ \E i \in Handlers : ApiScoreOne(i, TRUE)
    \/ \E i \in Handlers : ApiScoreTwo(i, TRUE)

SpecDip == Init /\ [][NextDip]_vars

\* Gifts scored to a slot and tallies whose cumulative includes them, between
\* explicit starts; every call reaches the API and is served, events handled one
\* after another.
TwiceGifts == {GiftEvent(<<>>, S_Rose, 1, 11, S_anna)}
TwiceTallies == {ArmiesEvent(<<>>, 13, 9)}

NextTwice ==
    \/ \E d \in Ticks : Tick(d)
    \/ \E e \in BattleEvents : OnBattle(e, 1)
    \/ \E e \in TwiceGifts : OnGift(e, 1)
    \/ \E e \in TwiceTallies : OnArmies(e, 1)
    \/ \E i \in Handlers : ApiStart(i, TRUE)
    \/ \E i \in Handlers : ApiStartState(i, TRUE)
    \/ \E i \in Handlers : ApiScoreOne(i, TRUE)
    \/ \E i \in Handlers : ApiScoreTwo(i, TRUE)
    \/ \E i \in Handlers : ApiGiftState(i, TRUE)
    \/ \E i \in Handlers : ApiGiftScore(i, TRUE)

SpecTwice == Init /\ [][NextTwice]_vars

\* The same gifts and tallies with a gift handler and a tally handler
\* interleaved, between explicit starts that are handled on their own; every
\* call reaches the API and is served.
\* The feed delivers a tally event while a gift handler is suspended in its score
\* add, or a gift while a tally handler is suspended in one of its calls.
TallyDuringGift(e) ==
    /\ Len(tasks) = 1
    /\ tasks[1].kind = "gift"
    /\ tasks[1].pc = "score_gift:post"
    /\ OnArmies(e, MaxPending)
GiftDuringTally(e) ==
    /\ Len(tasks) = 1
    /\ tasks[1].kind = "armies"
    /\ OnGift(e, MaxPending)

NextRace ==
    \/ \E d \in Ticks : Tick(d)
    \/ \E e \in BattleEvents : OnBattle(e, 1)
    \/ \E e \in TwiceGifts : OnGift(e, 1)
    \/ \E e \in TwiceTallies : OnArmies(e, 1)
    \/ \E e \in TwiceTallies : TallyDuringGift(e)
    \/ \E e \in TwiceGifts : GiftDuringTally(e)
    \/ \E i \in Handlers : ApiStart(i, TRUE)
    \/ \E i \in Handlers : ApiStartState(i, TRUE)
    \/ \E i \in Handlers : ApiScoreOne(i, TRUE)
    \/ \E i \in Handlers : ApiScoreTwo(i, TRUE)
    \/ \E i \in Handlers : ApiGiftState(i, TRUE)
    \/ \E i \in Handlers : ApiGiftScore(i, TRUE)

SpecRace == Init /\ [][NextRace]_vars

\* Chat that mentions a battle without asking for one, between explicit starts;
\* events handled one after another.
ChatComments ==
    {CommentEvent(<<>>, S_bob, S_nice_battle), CommentEvent(<<>>, S_anna, S_nice_battle)}

NextChat ==
    \/ \E d \in Ticks : Tick(d)
    \/ \E e \in BattleEvents : OnBattle(e, 1)
    \/ \E e \in EndEvents : OnBattlePunishFinish(e, 1)
    \/ \E e \in ChatComments : OnComment(e, 1)
    \/ \E i \in Handlers, ok \in BOOLEAN : StartPosted(i, ok)
    \/ \E i \in Handlers, resp \in SyncResponses : StartSynced(i, resp)
    \/ \E i \in Handlers, ok \in BOOLEAN : EndPosted(i, ok)
    \/ \E i \in Handlers, resp \in SyncResponses : EndSynced(i, resp)

SpecChat == Init /\ [][NextChat]_vars

\* Every outbound call of the listener: the handlers that start and end a
\* battle, import the slots, post tally deltas and score gifts, each call ending
\* well or failing; events handled one after another.
SlotsCommands == {CommentEvent(<<>>, S_bob, S_bang_slots \o <<" ">> \o S_ann \o <<"|">> \o S_anna)}
CallGifts == {GiftEvent(<<>>, S_Rose, 3, 5, S_anna)}
CallSyncResponses == {SyncFails, SyncData(NoVal, NoVal), SyncData(DictVal(S_ann), DictVal(S_anna))}

NextCalls ==
    \/ \E d \in Ticks : Tick(d)
    \/ \E e \in BattleEvents : OnBattle(e, 1)
    \/ \E e \in EndEvents : OnBattlePunishFinish(e, 1)
    \/ \E e \in ConcTallyEvents : OnArmies(e, 1)
    \/ \E e \in CallGifts : OnGift(e, 1)
    \/ \E e \in SlotsCommands : OnComment(e, 1)
    \/ \E i \in Handlers, ok \in BOOLEAN : StartPosted(i, ok)
    \/ \E i \in Handlers, resp \in CallSyncResponses : StartSynced(i, resp)
    \/ \E i \in Handlers, ok \in BOOLEAN : EndPosted(i, ok)
    \/ \E i \in Handlers, resp \in CallSyncResponses : EndSynced(i, resp)
    \/ \E i \in Handlers, ok \in BOOLEAN : ImportPosted(i, ok)
    \/ \E i \in Handlers, resp \in CallSyncResponses : ImportSynced(i, resp)
    \/ \E i \in Handlers, ok \in BOOLEAN : ScoreOnePosted(i, ok)
    \/ \E i \in Handlers, ok \in BOOLEAN : ScoreTwoPosted(i, ok)
    \/ \E i \in Handlers, resp \in CallSyncResponses : GiftSynced(i, resp)
    \/ \E i \in Handlers, ok \in BOOLEAN : GiftPosted(i, ok)

SpecCalls == Init /\ [][NextCalls]_vars

\* The scores as the listener delivers them to the Battle Control API: every
\* call is served or fails; events handled one after another.
ApiTallies == {ArmiesEvent(<<>>, 10, 9), ArmiesEvent(<<>>, 12, 9)}
PanelNames == {<<S_ann, S_anna>>}

NextApi ==
    \/ \E d \in Ticks : Tick(d)
    \/ \E e \in BattleEvents : OnBattle(e, 1)
    \/ \E e \in ApiTallies : OnArmies(e, 1)
    \/ \E e \in CallGifts : OnGift(e, 1)
    \/ \E i \in Handlers, ok \in BOOLEAN : ApiStart(i, ok)
    \/ \E i \in Handlers, ok \in BOOLEAN : ApiStartState(i, ok)
    \/ \E i \in Handlers, ok \in BOOLEAN : ApiScoreOne(i, ok)
    \/ \E i \in Handlers, ok \in BOOLEAN : ApiScoreTwo(i, ok)
    \/ \E i \in Handlers, ok \in BOOLEAN : ApiGiftState(i, ok)
    \/ \E i \in Handlers, ok \in BOOLEAN : ApiGiftScore(i, ok)

SpecApi == Init /\ [][NextApi]_vars

\* Comments that carry an id, a text or only a timestamp, in pairs that agree
\* on one of these and differ on the others; none is a command or matches the
\* heuristic; events handled one after another.
S_hi == <<"h", "i">>
S_yo == <<"y", "o">>
LongText(c) == [n \in 1..SnippetLen |-> "x"] \o <<c>>
Stamped(e, ts) == [e EXCEPT !.timestamp = ts]
KeyComments ==
    {CommentEvent(Str2("a", "1"), S_bob, S_hi),
     CommentEvent(Str2("a", "2"), S_bob, S_hi),
     CommentEvent(Str2("a", "1"), S_anna, S_yo),
     Stamped(CommentEvent(<<>>, S_bob, <<" ">> \o S_hi \o <<" ">>), Str2("t", "1")),
     Stamped(CommentEvent(<<>>, S_bob, S_hi), Str2("t", "2")),
     CommentEvent(<<>>, S_bob, LongText("a")),
     CommentEvent(<<>>, S_bob, LongText("b")),
     Stamped(CommentEvent(<<>>, S_bob, <<>>), Str2("t", "1")),
     Stamped(CommentEvent(<<>>, S_bob, <<>>), Str2("t", "2")),
     Stamped(CommentEvent(<<>>, S_anna, <<>>), Str2("t", "1"))}

NextKeys ==
    \/ \E d \in Ticks : Tick(d)
    \/ \E e \in KeyComments : OnComment(e, 1)

SpecKeys == Init /\ [][NextKeys]_vars

\* Two comments with ids, delivered again and again at every multiple of ten
\* seconds: inside the window, at its edge and after it; events handled one
\* after another.
WindowTicks == {10}
WindowEvents ==
    {CommentEvent(Str2("a", "1"), S_bob, S_hi), CommentEvent(Str2("a", "2"), S_bob, S_hi)}

NextWindow ==
    \/ \E d \in WindowTicks : Tick(d)
    \/ \E e \in WindowEvents : OnComment(e, 1)

SpecWindow == Init /\ [][NextWindow]_vars

\* Gifts that carry a value, one of them named so that the start heuristic
\* matches, after explicit starts, while the state pull rebinds the slots;
\* events handled one after another.
OrderGifts == {GiftEvent(<<>>, S_battle, 3, 5, S_anna), GiftEvent(<<>>, S_Rose, 3, 5, S_anna)}

NextOrder ==
    \/ \E d \in Ticks : Tick(d)
    \/ \E e \in BattleEvents : OnBattle(e, 1)
    \/ \E e \in OrderGifts : OnGift(e, 1)
    \/ \E i \in Handlers, ok \in BOOLEAN : StartPosted(i, ok)
    \/ \E i \in Handlers, resp \in GiftSyncResponses : StartSynced(i, resp)
    \/ \E i \in Handlers, resp \in GiftSyncResponses : GiftSynced(i, resp)
    \/ \E i \in Handlers, ok \in BOOLEAN : GiftPosted(i, ok)

SpecOrder == Init /\ [][NextOrder]_vars

\* Slot import commands with both names, one name, no name, blank sides and a
\* third side, each processed once and a duplicate afterwards; events handled
\* one after another.
SlotsCommand(args) == CommentEvent(<<>>, S_bob, S_bang_slots \o args)
SlotsShapes ==
    {SlotsCommand(<<>>),
     SlotsCommand(<<" ">> \o S_ann \o <<"|">>),
     SlotsCommand(<<" ", "|">> \o S_anna),
     SlotsCommand(<<" ", " ">> \o S_ann \o <<" ", "|", " ">> \o S_anna \o <<" ">>),
     SlotsCommand(<<" ">> \o S_ann \o <<"|">> \o S_anna \o <<"|">> \o S_bob),
     SlotsCommand(<<" ", " ", "|", " ", " ">>),
     SlotsCommand(<<" ">> \o S_ann)}

NextSlots ==
    \/ \E e \in SlotsShapes : OnComment(e, 1)
    \/ \E i \in Handlers, ok \in BOOLEAN : ImportPosted(i, ok)
    \/ \E i \in Handlers, resp \in SyncResponses : ImportSynced(i, resp)

SpecSlots == Init /\ [][NextSlots]_vars

\* Slot imports with names that are empty or not, by command and by direct call,
\* each call failing or not, and state pulls of every content, among them empty
\* names; one after another.
BindingNames == {<<>>, S_ann}
BindingCommands == {SlotsCommand(<<>>), SlotsCommand(<<" ", "|", " ">>)}
BindingSyncResponses ==
    {SyncFails, SyncData(NoVal, NoVal), SyncData(DictVal(<<>>), StrVal(S_bob)),
     SyncData(DictVal(S_bob), DictVal(<<>>)),
     [SyncData(NoVal, StrVal(<<>>)) EXCEPT !.slot_two_name = S_anna]}

NextBinding ==
    \/ \E e \in BindingCommands : OnComment(e, 1)
    \/ \E one \in BindingNames, two \in BindingNames : CallImportSlots(one, two, 1)
    \/ \E i \in Handlers, ok \in BOOLEAN : ImportPosted(i, ok)
    \/ \E i \in Handlers, resp \in BindingSyncResponses : ImportSynced(i, resp)

SpecBinding == Init /\ [][NextBinding]_vars

\* The slot names as the listener and the control panel set them in the API
\* and as the listener pulls them back; events handled one after another.
NextApiSlots ==
    \/ \E d \in Ticks : Tick(d)
    \/ \E e \in EndEvents : OnBattlePunishFinish(e, 1)
    \/ \E e \in CallGifts : OnGift(e, 1)
    \/ \E e \in SlotsCommands : OnComment(e, 1)
    \/ \E n \in PanelNames : PanelImport(n[1], n[2])
    \/ \E i \in Handlers, ok \in BOOLEAN : ApiEnd(i, ok)
    \/ \E i \in Handlers, ok \in BOOLEAN : ApiEndState(i, ok)
    \/ \E i \in Handlers, ok \in BOOLEAN : ApiImport(i, ok)
    \/ \E i \in Handlers, ok \in BOOLEAN : ApiImportState(i, ok)
    \/ \E i \in Handlers, ok \in BOOLEAN : ApiGiftState(i, ok)
    \/ \E i \in Handlers, ok \in BOOLEAN : ApiGiftScore(i, ok)

SpecApiSlots == Init /\ [][NextApiSlots]_vars

SpecWebsockets == Init /\ [][NextWebsockets]_vars

\* POST /songs/register
PostSongsRegister(req) ==
    /\ api' \in state_register_song(api, req)
    /\ UNCHANGED calls
    /\ ClientOnly
\* POST /songs/update_dancers
PostSongsUpdateDancers(req) ==
    /\ api' \in state_update_song_dancers(api, req)
    /\ UNCHANGED calls
    /\ ClientOnly
\* POST /songs/rename
PostSongsRename(song_id, name) ==
    /\ api' = state_rename_song(api, song_id, name)
    /\ UNCHANGED calls
    /\ ClientOnly
\* POST /songs/delete
PostSongsDelete(song_id) ==
    /\ api' = state_delete_song(api, song_id)
    /\ UNCHANGED calls
    /\ ClientOnly

SongIds == {"s1", "s2", "s3"}
SongNames == {"Anthem", "Ballad"}
RoleInputs == {<<>>, <<"lead">>, <<"lead", "twirl">>, <<"lead", "solo", "twirl">>}
RegisterRequests ==
    {[song_id |-> sid, name |-> "Anthem", url |-> "/songs/a.mp3",
      dancers |-> d, front_dancers |-> {}, mvp_dancers |-> {}, roles |-> r, knows_song |-> {}] :
        sid \in SongIds, d \in {{<<"anna">>}}, r \in {{}} \cup {{q} : q \in RoleInputs}}
UpdateRequests ==
    {[song_id |-> sid, dancers |-> d, front_dancers |-> <<>>, mvp_dancers |-> <<>>,
      roles |-> r, knows_song |-> {}] :
        sid \in SongIds, d \in {<<"bob">>}, r \in {{}} \cup {{q} : q \in RoleInputs}}

\* Clients register, update, rename and delete songs, from the empty library.
NextLibrary ==
    \/ \E req \in RegisterRequests : PostSongsRegister(req)
    \/ \E req \in UpdateRequests : PostSongsUpdateDancers(req)
    \/ \E sid \in SongIds, name \in SongNames : PostSongsRename(sid, name)
    \/ \E sid \in SongIds : PostSongsDelete(sid)

SpecLibrary == Init /\ [][NextLibrary]_vars

RawSlots == {"slot_one", "Alpha", "2", "slot_three"}
Amounts == {1, 7}

\* Clients start and end battles and add to the scores, as time passes.
NextManager ==
    \/ \E d \in Ticks : Tick(d)
    \/ PostBattleStart
    \/ PostBattleEnd
    \/ \E raw \in RawSlots, amount \in Amounts : PostScoreAdd(raw, amount)

SpecManager == Init /\ [][NextManager]_vars

\* Events that carry an idempotency key, delivered again while their keys are in
\* the window and after they have left it, handlers interleaved.
KeyedEvents ==
    {CommentEvent(<<>>, <<"b", "o", "b">>, S_bang_battle),
     ArmiesEvent(Str2("a", "1"), 10, 4),
     GiftEvent(Str2("g", "1"), <<"R", "o", "s", "e">>, 3, 5, S_anna),
     WithId(Event("battle_end"), Str2("e", "1"))}

NextDedupe ==
    \/ \E d \in Ticks : Tick(d)
    \/ \E e \in KeyedEvents : OnBattlePunishFinish(e, MaxPending)
    \/ \E e \in KeyedEvents : OnArmies(e, MaxPending)
    \/ \E e \in KeyedEvents : OnGift(e, MaxPending)
    \/ \E e \in KeyedEvents : OnComment(e, MaxPending)
    \/ \E i \in Handlers, ok \in BOOLEAN : StartPosted(i, ok)
    \/ \E i \in Handlers, resp \in ConcSyncResponses : StartSynced(i, resp)
    \/ \E i \in Handlers, ok \in BOOLEAN : EndPosted(i, ok)
    \/ \E i \in Handlers, resp \in ConcSyncResponses : EndSynced(i, resp)
    \/ \E i \in Handlers, ok \in BOOLEAN : ScoreOnePosted(i, ok)
    \/ \E i \in Handlers, ok \in BOOLEAN : ScoreTwoPosted(i, ok)
    \/ \E i \in Handlers, resp \in ConcSyncResponses : GiftSynced(i, resp)
    \/ \E i \in Handlers, ok \in BOOLEAN : GiftPosted(i, ok)

SpecDedupe == Init /\ [][NextDedupe]_vars

SpecRun == Init /\ [][NextRun]_vars

\* The timer of asyncio.sleep fires, and disconnect()/aclose() end (by returning
\* or by raising): the event loop keeps running the task.
LiveRun ==
    /\ SpecRun
    /\ WF_vars(SleepDone)
    /\ WF_vars(\E err \in BOOLEAN : DisconnectDone(err))
    /\ WF_vars(\E err \in BOOLEAN : CloseDisconnect(err))
    /\ WF_vars(\E err \in BOOLEAN : CloseHttp(err))

(***************************************************************************)
(* Claims about the connection supervisor                                  *)
(***************************************************************************)

FromStart == attempts <= MaxAttempts
AllGeneric(i) == \A j \in 1..i : history[j].outcome = "generic"
ClaimedWait(i) == IF i <= 6 THEN <<5, 10, 20, 40, 60, 60>>[i] ELSE 60

\* C2: from run()'s initial state, consecutive generic connection failures wait
\* 5, 10, 20, 40, 60, 60, ... seconds: each wait doubles the previous one, capped
\* at 60, and none exceeds 60.
C2_GenericWaits ==
    FromStart =>
        \A i \in 1..Len(history) :
            AllGeneric(i) =>
                /\ history[i].wait = ClaimedWait(i)
                /\ history[i].wait <= 60
                /\ i > 1 => history[i].wait = Min(60, 2 * history[i - 1].wait)

C2_Witness ==
    /\ FromStart
    /\ Len(history) = 6
    /\ AllGeneric(6)
    /\ [i \in 1..6 |-> history[i].wait] = <<5, 10, 20, 40, 60, 60>>
    /\ run_pc = "sleep"

\* C3: whatever the backoff tier, the wait that follows a connect attempt failing
\* with a blocked/rate-limited condition is exactly 300 seconds.
C3_BlockedWait ==
    /\ (run_pc = "sleep" /\ IsBlocked(last_exc)) => backoff = 300
    /\ \A i \in 1..Len(history) :
           history[i].outcome = "blocked" => history[i].wait = 300

C3_Witness ==
    /\ run_pc = "sleep"
    /\ last_exc = Exc("Exception", {"too many connections"})
    /\ Len(history) >= 4
    /\ history[Len(history) - 1].wait = 20
    /\ history[Len(history)].wait = 300

\* C4: after the 300-second wait of a blocked error, a generic failure of the next
\* attempt is followed by the base wait of 5 seconds.
C4_ResumeFromBase ==
    \A i \in 1..(Len(history) - 1) :
        (history[i].outcome = "blocked" /\ history[i + 1].outcome = "generic")
            => history[i + 1].wait = 5

\* C5: the wait that follows a session that connected successfully is 5 seconds,
\* whether connect() returned cleanly or the session ended with a generic error.
C5_ResetOnConnect ==
    (run_pc = "sleep" /\ was_connected /\ Category(last_exc) \in {"clean", "generic"})
        => backoff = 5

Terminal == run_pc \in {"close_disconnect", "close_http", "exited"}

\* C6: the supervisor never stops on its own: run() is left only by a
\* cancellation, and after any connect outcome, unless a shutdown signal arrives,
\* the wait completes and a new connect attempt is made.
C6_NeverStops ==
    /\ [](Terminal => cancelled)
    /\ [](run_pc \in {"disconnect", "sleep"} => <>(run_pc = "connect" \/ cancelled))

C6_Witness ==
    /\ run_pc = "connect"
    /\ ~cancelled
    /\ Len(history) >= 3
    /\ {history[i].outcome : i \in 1..Len(history)} = {"clean", "blocked", "generic"}

\* C7: a shutdown signal delivered during connect() or the backoff sleep ends the
\* loop: no connect attempt and no wait follows it, close() runs both of its
\* steps whether or not one of them raises, and nothing propagates.
C7_ShutdownTerminates ==
    /\ [](cancelled => run_pc \notin {"connect", "sleep"})
    /\ [](run_pc = "exited" =>
            /\ [i \in 1..Len(close_steps) |-> close_steps[i].step] = <<"disconnect", "aclose">>
            /\ ~escaped)
    /\ [](cancelled => <>(run_pc = "exited"))

C7_Witness ==
    /\ cancelled
    /\ run_pc = "exited"
    /\ Len(close_steps) = 2
    /\ close_steps[1].raised
    /\ close_steps[2].raised
    /\ Len(history) >= 1

(***************************************************************************)
(* Claims about the event handlers                                         *)
(***************************************************************************)

\* The handler registered for the event's class runs on e.
Handles(e) ==
    \/ OnBattlePunishFinish(e, MaxPending)
    \/ OnArmies(e, MaxPending)
    \/ OnGift(e, MaxPending)
    \/ OnComment(e, MaxPending)

\* An event with the key of e was registered at most 30 seconds ago.
RegisteredWithin30(e) ==
    LET key == MakeEventKey(e, e.kind)
    IN  key # <<>> /\ key \in DOMAIN seen /\ now - seen[key] <= 30

\* C1: of two events with the same idempotency key, the second arriving within
\* 30 seconds of the first being registered, only the first is processed: the
\* handler of the second returns at once, changes no scores, ledger, last
\* start/end or slot binding and issues no outbound call.
C1_DuplicateIsNoOp ==
    [][\A e \in KeyedEvents :
          (Handles(e) /\ RegisteredWithin30(e)) =>
              /\ UNCHANGED <<last_scores, score_by_id, last_start, last_end, slots, tasks>>
              /\ fin'.pc = "duplicate"
              /\ fin'.out = <<>>]_vars

C1_Witness ==
    /\ fin.pc = "duplicate"
    /\ fin.kind = "comment"
    /\ now = 20
    /\ MakeEventKey(fin.evt, "comment") \in DOMAIN seen
    /\ seen[MakeEventKey(fin.evt, "comment")] = 0
    /\ last_start = Utc(0)

ScoreAdds(out) == SelectSeq(out, LAMBDA c : c.op = "POST score/add")
Reported(evt, k) == IF Len(evt.armies) >= k THEN evt.armies[k] ELSE 0
\* The posts the claim C8 expects of a tally event: max(0, n - p) per side, none
\* for a delta of 0.
ClaimedAdds(p, n1, n2) ==
    (IF Max(0, n1 - p.slot_one) > 0
     THEN <<ScoreCall("slot_one", Max(0, n1 - p.slot_one))>> ELSE <<>>)
    \o (IF Max(0, n2 - p.slot_two) > 0
        THEN <<ScoreCall("slot_two", Max(0, n2 - p.slot_two))>> ELSE <<>>)

\* C8: a processed tally event that finds the cumulatives (p1, p2) recorded
\* and reports (n1, n2) posts max(0, n1 - p1) to slot_one and max(0, n2 - p2)
\* to slot_two, and makes no score call for a side whose delta is 0; previous
\* (10, 4) and new (10, 9) post nothing to slot_one and exactly +5 to slot_two.
C8_TallyDeltas ==
    (fin.kind = "armies" /\ fin.pc = "done") =>
        /\ ScoreAdds(fin.out)
               = ClaimedAdds(fin.prev, Reported(fin.evt, 1), Reported(fin.evt, 2))
        /\ (fin.prev = [slot_one |-> 10, slot_two |-> 4] /\ fin.evt.armies = <<10, 9>>)
               => ScoreAdds(fin.out) = <<ScoreCall("slot_two", 5)>>

AllCalls ==
    {fin.out[k] : k \in 1..Len(fin.out)}
    \cup UNION {{tasks[i].out[k] : k \in 1..Len(tasks[i].out)} : i \in 1..Len(tasks)}

\* C9: every amount sent in a score/{slot}/add call, from a tally delta or from
\* a gift, is positive: a lower cumulative than recorded, or a gift of
\* non-positive value, never produces a negative or zero score post.
C9_PositiveAmounts ==
    \A c \in AllCalls : c.op = "POST score/add" => c.amount > 0

C9_Witness ==
    /\ fin.kind = "armies"
    /\ fin.pc = "done"
    /\ fin.s1 < fin.prev.slot_one
    /\ fin.out = <<>>
    /\ \E i \in 1..Len(tasks) :
           /\ tasks[i].kind = "gift"
           /\ GiftValue(tasks[i].evt) > 0
           /\ tasks[i].pc = "score_gift:post"

\* C10: a tally event that is no duplicate and arrives when no start occurred
\* within the last 30 seconds (or none at all) first triggers a battle start and
\* then posts the deltas; when a start did occur within the last 30 seconds it
\* triggers no start and only posts the deltas.
C10_TallyImplicitStart ==
    (fin.kind = "armies" /\ fin.pc # "duplicate") =>
        IF fin.start0 \in {"never", "old"}
        THEN /\ fin.out # <<>>
             /\ fin.out[1] = StartCall("armies_event")
             /\ \A k \in 2..Len(fin.out) : fin.out[k].op \in {"GET state", "POST score/add"}
             /\ ScoreAdds(fin.out)
                    = ClaimedAdds(ZeroScores, Reported(fin.evt, 1), Reported(fin.evt, 2))
        ELSE /\ \A k \in 1..Len(fin.out) : fin.out[k].op = "POST score/add"
             /\ ScoreAdds(fin.out)
                    = ClaimedAdds(fin.p0, Reported(fin.evt, 1), Reported(fin.evt, 2))

(***************************************************************************)
(* Claims about gifts and the resolution of their recipient                *)
(***************************************************************************)

\* C11: a gift event that is no duplicate, has the value v > 0 and whose
\* recipient, normalized, equals the name bound to slot_two (and not the one
\* bound to slot_one) makes exactly one score add, of v to slot_two, raises the
\* cumulative of slot_two by v and the ledger entry of the normalized recipient
\* by v; repeat_count 3 and unit value 5 give +15.
C11_GiftToSlotTwo ==
    LET v == GiftValue(fin.evt)
        rid == NormalizeUserId(fin.evt.recipient)
    IN  (/\ fin.kind = "gift"
         /\ fin.pc # "duplicate"
         /\ tasks = <<>>
         /\ v > 0
         /\ MatchName(fin.evt.recipient) # <<>>
         /\ MatchName(fin.evt.recipient) = MatchName(slots.slot_two)
         /\ MatchName(fin.evt.recipient) # MatchName(slots.slot_one))
        => /\ fin.pc = "done"
           /\ ScoreAdds(fin.out) = <<ScoreCall("slot_two", v)>>
           /\ last_scores = [fin.prev EXCEPT !.slot_two = @ + v]
           /\ rid \in DOMAIN score_by_id
           /\ score_by_id[rid] = fin.led + v
           /\ (fin.evt.repeat_count = 3 /\ fin.evt.diamond_count = 5) => v = 15

\* The value the claim C12 gives a gift.
ClaimedGiftValue(evt) ==
    IF evt.repeat_count # 0 /\ evt.diamond_count # 0
    THEN evt.repeat_count * evt.diamond_count
    ELSE IF evt.diamond_count # 0 THEN evt.diamond_count ELSE 0

\* A step of the handler of a gift, with events handled one after another, and
\* the handler after the step.
GiftStep == Len(tasks) = 1 /\ tasks[1].kind = "gift" /\ tasks' # tasks
GiftAfter == IF tasks' = <<>> THEN fin' ELSE tasks'[1]
Lifecycle(out) ==
    SelectSeq(out, LAMBDA c : c.op \in {"POST battle/start", "POST battle/end"})

\* A gift of value v > 0 that is handled to the end posts v, once.
C12_ValuePosted ==
    (fin.kind = "gift" /\ fin.pc = "done" /\ ClaimedGiftValue(fin.evt) > 0) =>
        ScoreAdds(fin.out) = <<ScoreCall(fin.slot, ClaimedGiftValue(fin.evt))>>

\* The name of the gift reaches the start/end heuristic, whatever its value.
C12_NameSubmitted ==
    (GiftStep /\ tasks[1].pc = "on_gift:sync") =>
        /\ (/\ looks_like_battle_start(<<>>, tasks[1].evt.gift_name)
            /\ last_start.aware /\ now - last_start.t > 30)
           => Lifecycle(GiftAfter.out) = <<StartCall("heuristic")>>
        /\ (/\ ~looks_like_battle_start(<<>>, tasks[1].evt.gift_name)
            /\ looks_like_battle_end(<<>>, tasks[1].evt.gift_name)
            /\ last_end.aware /\ now - last_end.t > 30)
           => Lifecycle(GiftAfter.out) = <<EndCall("heuristic")>>

\* C12: the value of a gift is repeat_count * unit_value when both are present
\* and unit_value when only it is; otherwise the gift has no score effect: no
\* score add is posted and the handler changes neither the cumulatives nor the
\* ledger, while the name of the gift is still submitted to the start/end
\* heuristic (whose start or end, when the name triggers one, is the only
\* change the handler of such a gift makes to them).
C12_GiftValue ==
    /\ []C12_ValuePosted
    /\ [][/\ C12_NameSubmitted
          /\ (GiftStep /\ ClaimedGiftValue(tasks[1].evt) = 0) =>
                 /\ ScoreAdds(GiftAfter.out) = <<>>
                 /\ \/ UNCHANGED <<last_scores, score_by_id>>
                    \/ Lifecycle(GiftAfter.out) # <<>>]_vars

C12_Witness ==
    /\ fin.kind = "gift"
    /\ fin.pc = "done"
    /\ ClaimedGiftValue(fin.evt) = 0
    /\ fin.evt.gift_name = S_battle
    /\ Lifecycle(fin.out) = <<StartCall("heuristic")>>
    /\ ScoreAdds(fin.out) = <<>>
    /\ fin.p0 # ZeroScores
    /\ last_scores = ZeroScores
    /\ tasks = <<>>

(***************************************************************************)
(* Claims about the lifecycle signals                                      *)
(***************************************************************************)

\* The event is no duplicate when it is delivered.
NotDuplicate(e) ==
    LET key == MakeEventKey(e, e.kind)
    IN  key = <<>> \/ key \notin DOMAIN seen \/ now - seen[key] > 30

HandlesExplicit(e) ==
    \/ OnBattle(e, MaxPending)
    \/ OnBattleNotice(e, MaxPending)
    \/ OnBattleVictory(e, MaxPending)
    \/ OnBattlePunishFinish(e, MaxPending)
    \/ OnComment(e, MaxPending)

ExplicitStart(e) ==
    \/ e.kind \in {"battle", "battle_notice"}
    \/ e.kind = "comment" /\ StartsWith(e.comment, S_bang_battle)
ExplicitEnd(e) ==
    \/ e.kind \in {"battle_victory", "battle_end"}
    \/ e.kind = "comment" /\ StartsWith(e.comment, S_bang_end)

\* C13: the cooldown never gates an explicit signal: a comment that is no
\* duplicate and starts with "!battle" triggers a start, one that starts with
\* "!end" an end, and so do the structured battle-start and battle-end events
\* of the feed, however recently a start or an end occurred.
C13_ExplicitNeverGated ==
    [][\A e \in ExplicitEvents \cup ExplicitComments :
          (HandlesExplicit(e) /\ NotDuplicate(e)) =>
              /\ Len(tasks') = Len(tasks) + 1
              /\ ExplicitStart(e) =>
                     /\ tasks'[Len(tasks')].pc = "trigger_start:post"
                     /\ tasks'[Len(tasks')].out[1].op = "POST battle/start"
                     /\ last_start' = Utc(now)
              /\ ExplicitEnd(e) =>
                     /\ tasks'[Len(tasks')].pc = "trigger_end:post"
                     /\ tasks'[Len(tasks')].out[1].op = "POST battle/end"
                     /\ last_end' = Utc(now)]_vars

C13_Witness ==
    /\ Len(tasks) = 2
    /\ tasks[1].kind = "comment"
    /\ tasks[1].evt.comment = S_bang_battle
    /\ tasks[1].start0 = "recent"
    /\ tasks[1].pc = "trigger_start:post"
    /\ tasks[2].kind = "battle_end"
    /\ tasks[2].end0 = "recent"
    /\ tasks[2].pc = "trigger_end:post"
    /\ last_start = Utc(now)
    /\ last_end = Utc(now)

\* C14: of two deliveries of the comment "nice battle" within 10 seconds, as
\* events that are no duplicates, the first (no start within the last 30
\* seconds) triggers a heuristic start and the second (a start within the last
\* 30 seconds) triggers nothing.
C14_NiceBattle ==
    (fin.kind = "comment" /\ fin.evt.comment = S_nice_battle /\ fin.pc # "duplicate") =>
        IF fin.start0 = "recent"
        THEN fin.out = <<>>
        ELSE Lifecycle(fin.out) = <<StartCall("heuristic")>>

\* The step triggers a start, or an end, for the given reason: a handler
\* arrives at the POST of trigger_start, or trigger_end (a step in which a
\* handler returns moves the others and triggers nothing).
Triggers(pc, reason) ==
    \E i \in 1..Len(tasks') :
        /\ Len(tasks') >= Len(tasks)
        /\ tasks'[i].pc = pc
        /\ tasks'[i].out[Len(tasks'[i].out)].reason = reason
        /\ (i > Len(tasks) \/ tasks[i].pc # pc)

\* C15: a start triggered by the heuristic (on a comment text or a gift name)
\* never occurs within 30 seconds after the most recent start of any origin, and
\* an end triggered by the heuristic never within 30 seconds after the most
\* recent end of any origin.
C15_HeuristicCooldown ==
    [][/\ Triggers("trigger_start:post", "heuristic")
              => (last_start.aware => now - last_start.t > 30)
       /\ Triggers("trigger_end:post", "heuristic")
              => (last_end.aware => now - last_end.t > 30)]_vars

C15_Witness ==
    /\ Len(tasks) = 2
    /\ tasks[1].kind = "gift"
    /\ tasks[1].pc = "trigger_start:post"
    /\ tasks[1].out[Len(tasks[1].out)] = StartCall("heuristic")
    /\ tasks[2].kind = "comment"
    /\ tasks[2].pc = "trigger_end:post"
    /\ tasks[2].out = <<EndCall("heuristic")>>
    /\ tasks[2].end0 = "old"
    /\ last_start = Utc(40)
    /\ last_end = Utc(40)

\* The gift handler, events handled one after another, has resolved the
\* recipient of its gift with the bindings that are still the current ones.
Resolved == Len(tasks) = 1 /\ tasks[1].pc = "score_gift:post"
Related(a, b) == a = b \/ Contains(a, b) \/ Contains(b, a)

\* C16: a recipient that, normalized, neither equals the normalized name of a
\* slot nor contains it nor is contained in it resolves to slot_one, and so does
\* an empty recipient; the resolution always yields slot_one or slot_two.
C16_DefaultSlot ==
    Resolved =>
        LET rec == MatchName(tasks[1].evt.recipient)
        IN  /\ tasks[1].slot \in {"slot_one", "slot_two"}
            /\ rec = <<>> => tasks[1].slot = "slot_one"
            /\ (/\ ~Related(rec, MatchName(slots.slot_one))
                /\ ~Related(rec, MatchName(slots.slot_two)))
               => tasks[1].slot = "slot_one"

C16_Witness ==
    /\ Resolved
    /\ tasks[1].evt.recipient = S_bob
    /\ slots = [slot_one |-> S_ann, slot_two |-> S_anna]
    /\ tasks[1].slot = "slot_one"
    /\ tasks[1].out[Len(tasks[1].out)] = ScoreCall("slot_one", 5)

\* C17: the recipient is resolved in strict priority: equal to the name of
\* slot_one, equal to the name of slot_two, in a substring relation with the
\* name of slot_one, in one with the name of slot_two.  With the slots "ann" and
\* "anna" the recipient "@Anna " resolves to slot_two; when both slots match at
\* the same level slot_one wins.
C17_ResolutionPriority ==
    Resolved =>
        LET rec == MatchName(tasks[1].evt.recipient)
            n1 == MatchName(slots.slot_one)
            n2 == MatchName(slots.slot_two)
        IN  (rec # <<>> /\ n1 # <<>> /\ n2 # <<>>) =>
                tasks[1].slot = IF rec = n1 THEN "slot_one"
                                ELSE IF rec = n2 THEN "slot_two"
                                ELSE IF Contains(n1, rec) \/ Contains(rec, n1) THEN "slot_one"
                                ELSE IF Contains(n2, rec) \/ Contains(rec, n2) THEN "slot_two"
                                ELSE "slot_one"

C17_Witness ==
    /\ Resolved
    /\ tasks[1].evt.recipient = <<"@", "A", "n", "n", "a", " ">>
    /\ slots = [slot_one |-> S_ann, slot_two |-> S_anna]
    /\ tasks[1].slot = "slot_two"
    /\ tasks[1].out[Len(tasks[1].out)] = ScoreCall("slot_two", 15)

(***************************************************************************)
(* Claims about the dedupe window                                          *)
(***************************************************************************)

\* The event has no explicit id, no comment text and no timestamp.
NoKeyFields(e) == FirstTruthy(e.ids) = <<>> /\ e.comment = <<>> /\ e.timestamp = <<>>
HandlesInTurn(e) ==
    \/ OnBattle(e, 1)
    \/ OnArmies(e, 1)
    \/ OnGift(e, 1)
    \/ OnComment(e, 1)

\* C18: an event from which no idempotency key can be derived is never treated
\* as a duplicate: however many of them arrive and however close together, each
\* is processed, and none adds an entry to the dedupe window.
C18_KeylessNeverDuplicate ==
    [][\A e \in BattleEvents \cup TallyEvents \cup GiftEvents \cup CommentEvents :
          (HandlesInTurn(e) /\ NoKeyFields(e)) =>
              /\ seen' = seen
              /\ \/ Len(tasks') = Len(tasks) + 1 /\ tasks'[Len(tasks')].evt = e
                 \/ tasks' = tasks /\ fin'.evt = e /\ fin'.pc # "duplicate"]_vars

C18_Witness ==
    /\ now = 0
    /\ fin.kind = "armies"
    /\ NoKeyFields(fin.evt)
    /\ fin.evt.armies = <<10, 9>>
    /\ fin.pc = "done"
    /\ fin.prev = [slot_one |-> 10, slot_two |-> 9]
    /\ fin.out = <<>>
    /\ DOMAIN seen = {MakeEventKey(ArmiesEvent(Str2("a", "1"), 10, 4), "armies")}

\* C19: with the handlers interleaved on one event loop, the duplicate check
\* and the registration of the key are one step, before the first suspension of
\* the handler: a delivery whose key is not in the window registers it in the
\* step in which it is delivered, and of two deliveries of an event with the
\* same key inside the window, however the handlers interleave, exactly one
\* proceeds past the duplicate check.
C19_AtomicDuplicateCheck ==
    [][\A e \in KeyedEvents :
          Handles(e) =>
              LET key == MakeEventKey(e, e.kind)
              IN  IF key \in DOMAIN seen /\ now - seen[key] <= 30
                  THEN /\ tasks' = tasks
                       /\ fin'.evt = e
                       /\ fin'.pc = "duplicate"
                       /\ seen'[key] = seen[key]
                  ELSE /\ key \in DOMAIN seen'
                       /\ seen'[key] = now
                       /\ \/ Len(tasks') = Len(tasks) + 1 /\ tasks'[Len(tasks')].evt = e
                          \/ tasks' = tasks /\ fin'.evt = e /\ fin'.pc # "duplicate"]_vars

C19_Witness ==
    /\ Len(tasks) = 1
    /\ tasks[1].kind = "gift"
    /\ tasks[1].pc = "on_gift:sync"
    /\ fin.kind = "gift"
    /\ fin.evt = tasks[1].evt
    /\ fin.pc = "duplicate"
    /\ MakeEventKey(fin.evt, "gift") \in DOMAIN seen
    /\ now > seen[MakeEventKey(fin.evt, "gift")]

(***************************************************************************)
(* C20: a failure of an outbound call is not propagated into the handler   *)
(***************************************************************************)

\* What happens to the listener when the call that handler i awaits ends: a POST
\* with the result ok of _safe_post, the state pull with resp.
Outcome(i, ok, resp) ==
    CASE tasks[i].pc = "trigger_start:post" -> after_start_post(Cur, i, ok)
      [] tasks[i].pc = "trigger_start:sync" -> after_start_sync(Cur, i, resp)
      [] tasks[i].pc = "trigger_end:post" -> after_end_post(Cur, i, ok)
      [] tasks[i].pc = "trigger_end:sync" -> after_end_sync(Cur, i, resp)
      [] tasks[i].pc = "import_slots:post" -> after_import_post(Cur, i, ok)
      [] tasks[i].pc = "import_slots:sync" -> after_import_sync(Cur, i, resp)
      [] tasks[i].pc = "update_scores:post_one" -> after_score_one(Cur, i, ok)
      [] tasks[i].pc = "update_scores:post_two" -> after_score_two(Cur, i, ok)
      [] tasks[i].pc = "on_gift:sync" -> after_gift_sync(Cur, i, resp)
      [] tasks[i].pc = "score_gift:post" -> after_gift_post(Cur, i, ok)

\* The local bookkeeping of the listener.
Bookkeeping(S) == <<S.last_start, S.last_end, S.last_scores, S.score_by_id>>

\* Where handler i is once it has run on: suspended at its next await, or
\* returned with a result (an exception included).
Progress(S, i) ==
    IF Len(S.tasks) = Len(tasks) THEN <<"await", S.tasks[i].pc>> ELSE <<"return", S.fin.pc>>

IsStatePull(pc) == pc \in {"trigger_start:sync", "trigger_end:sync", "import_slots:sync", "on_gift:sync"}

\* C20: whenever a handler is suspended in an outbound call (the POST of a
\* start, an end, a slots import or a score add, or the state pull), the call
\* failing leaves the handler where the call succeeding leaves it (at the same
\* next await or returned with the same result, never with an exception of the
\* call) and with the same last-start and last-end timestamps, per-slot
\* cumulative scores and ledger; a failed state pull leaves the listener
\* exactly as a state pull that names no slot.
C20_FailureNotPropagated ==
    \A i \in 1..Len(tasks) :
        LET failed == Outcome(i, FALSE, SyncFails)
        IN  /\ \A resp \in CallSyncResponses \ {SyncFails} :
                   LET succeeded == Outcome(i, TRUE, resp)
                   IN  /\ Bookkeeping(failed) = Bookkeeping(succeeded)
                       /\ Progress(failed, i) = Progress(succeeded, i)
            /\ IsStatePull(tasks[i].pc) => failed = Outcome(i, TRUE, SyncData(NoVal, NoVal))
            /\ Progress(failed, i)[1] = "return" /\ tasks[i].pc # "on_gift:sync"
                   => failed.fin.pc = "done"

\* A gift handler is suspended in the POST of its score add, and the POST
\* failing credits the gift to the slot's cumulative score and to the
\* recipient's ledger entry all the same.
C20_Witness ==
    /\ Len(tasks) = 1
    /\ tasks[1].pc = "score_gift:post"
    /\ tasks[1].value > 0
    /\ last_start.aware
    /\ LET failed == Outcome(1, FALSE, SyncFails)
           rid == NormalizeUserId(tasks[1].evt.recipient)
       IN  /\ failed.fin.pc = "done"
           /\ failed.tasks = <<>>
           /\ failed.last_scores[tasks[1].slot] = last_scores[tasks[1].slot] + tasks[1].value
           /\ rid \notin DOMAIN score_by_id
           /\ failed.score_by_id[rid] = tasks[1].value

(***************************************************************************)
(* C21: a score add lost to a failed call is made up by the next tally     *)
(***************************************************************************)

\* C21: when the handler of a tally event returns with every one of its calls
\* served, and a score add for a slot the tally reports had failed since the
\* last start (in an earlier handler, with no tally for the slot in between),
\* the amount delivered to the API for that slot since the last start equals
\* the cumulative the tally reports.
C21_Reconciled ==
    [][\A sl \in SlotNames :
          (/\ tasks # <<>>
           /\ tasks' = <<>>
           /\ tasks[1].kind = "armies"
           /\ fin'.pc = "done"
           /\ sl \in calls.lost
           /\ TallyFor(tasks[1].evt, sl) # 0
           /\ calls'.clean)
          => calls'.delivered[sl] = TallyFor(tasks[1].evt, sl)]_vars

(***************************************************************************)
(* C22: a failed state pull leaves both slot bindings as they were         *)
(***************************************************************************)

\* C22: whenever a handler is suspended in the state pull of _sync_slots, the
\* pull failing (the request raising or timing out, or its body not parsing)
\* leaves slot_one and slot_two bound to exactly the names they had.
C22_FailedSyncKeepsBindings ==
    \A i \in 1..Len(tasks) :
        IsStatePull(tasks[i].pc) =>
            /\ Outcome(i, FALSE, SyncFails).slots.slot_one = slots.slot_one
            /\ Outcome(i, FALSE, SyncFails).slots.slot_two = slots.slot_two

\* A handler is suspended in the state pull while both bindings hold names
\* other than the defaults, and the pull failing keeps them.
C22_Witness ==
    /\ Len(tasks) = 1
    /\ IsStatePull(tasks[1].pc)
    /\ slots = [slot_one |-> S_ann, slot_two |-> S_anna]
    /\ Outcome(1, FALSE, SyncFails).slots = [slot_one |-> S_ann, slot_two |-> S_anna]

(***************************************************************************)
(* C23: a successful state pull binds the slots to the API's names         *)
(***************************************************************************)

\* C23: when the state pull of _sync_slots is served by the API while the API's
\* state holds non-empty slot_one and slot_two names, the listener's bindings
\* are those two names once the pull has ended.
C23_SyncAdoptsApiNames ==
    [][(/\ Len(tasks) = 1
        /\ IsStatePull(tasks[1].pc)
        /\ tasks' # tasks
        /\ calls'.clean
        /\ api.slot_one # <<>>
        /\ api.slot_two # <<>>)
       => slots' = [slot_one |-> api.slot_one, slot_two |-> api.slot_two]]_vars

(***************************************************************************)
(* C24: the idempotency key is derived by priority: id, sender and text,   *)
(* timestamp and sender                                                    *)
(***************************************************************************)

HasId(e) == FirstTruthy(e.ids) # <<>>
Snippet(e) == Take(Strip(e.comment), 64)
HasText(e) == e.kind = "comment" /\ Snippet(e) # <<>>

\* Two events of one kind have the same key by the stated priority.
SameKey(a, b) ==
    /\ a.kind = b.kind
    /\ IF HasId(a) \/ HasId(b)
       THEN HasId(a) /\ HasId(b) /\ FirstTruthy(a.ids) = FirstTruthy(b.ids)
       ELSE IF HasText(a) \/ HasText(b)
       THEN HasText(a) /\ HasText(b) /\ a.user = b.user /\ Snippet(a) = Snippet(b)
       ELSE a.timestamp # <<>> /\ a.timestamp = b.timestamp /\ a.user = b.user

\* C24: when a comment e is delivered right after a comment a was processed,
\* a's key being the only one in the window and at most 30 seconds old, e is
\* a duplicate exactly if the two have the same key by the priority: equal ids
\* if either carries an id (whatever their senders and texts); else equal
\* sender and equal first 64 characters of the trimmed text if either has a
\* text; else equal timestamp and sender.
C24_KeyPriority ==
    [][(/\ fin.pc = "done"
        /\ Cardinality(DOMAIN seen) = 1
        /\ \A k \in DOMAIN seen : now - seen[k] <= 30
        /\ fin.evt \in KeyComments)
       => \A e \in KeyComments :
              OnComment(e, 1) =>
                  /\ fin'.evt = e
                  /\ fin'.pc = IF SameKey(fin.evt, e) THEN "duplicate" ELSE "done"]_vars

\* Two comments with the same sender and text and different ids have both been
\* processed: both ids are in the window.
C24_Witness ==
    /\ fin.evt = CommentEvent(Str2("a", "2"), S_bob, S_hi)
    /\ fin.pc = "done"
    /\ DOMAIN seen = {<<"comment", ":", "a", "1">>, <<"comment", ":", "a", "2">>}
    /\ \A k \in DOMAIN seen : seen[k] = now

(***************************************************************************)
(* C25: a !slots command imports two non-blank names                       *)
(***************************************************************************)

\* The two names each command is to import.
ClaimedNames(e) ==
    CASE e = SlotsCommand(<<>>) -> <<DEFAULT_SLOT_ONE, DEFAULT_SLOT_TWO>>
      [] e = SlotsCommand(<<" ">> \o S_ann \o <<"|">>) -> <<S_ann, DEFAULT_SLOT_TWO>>
      [] e = SlotsCommand(<<" ", "|">> \o S_anna) -> <<DEFAULT_SLOT_ONE, S_anna>>
      [] e = SlotsCommand(<<" ", " ">> \o S_ann \o <<" ", "|", " ">> \o S_anna \o <<" ">>)
             -> <<S_ann, S_anna>>
      [] e = SlotsCommand(<<" ">> \o S_ann \o <<"|">> \o S_anna \o <<"|">> \o S_bob)
             -> <<S_ann, S_anna>>
      [] e = SlotsCommand(<<" ", " ", "|", " ", " ">>) -> <<DEFAULT_SLOT_ONE, DEFAULT_SLOT_TWO>>
      [] e = SlotsCommand(<<" ">> \o S_ann) -> <<S_ann, DEFAULT_SLOT_TWO>>

IsPrefix(p, q) == Len(p) <= Len(q) /\ p = SubSeq(q, 1, Len(p))

\* The calls of a gift handler, as far as it has got, in the claimed order: the
\* state pull first; then, if the heuristic fires, the start or end and the
\* state pull that follows it; the score add last.
GiftCallsInOrder(tk) ==
    \/ tk.out = <<>> /\ tk.pc = "duplicate"
    \/ \E sc \in {ScoreCall(sl, GiftValue(tk.evt)) : sl \in SlotNames} :
          \/ IsPrefix(tk.out, <<StateCall, sc>>) /\ tk.out # <<>>
          \/ \E lc \in {StartCall("heuristic"), EndCall("heuristic")} :
                 IsPrefix(tk.out, <<StateCall, lc, StateCall, sc>>) /\ Len(tk.out) >= 2

C26_CallsInOrder ==
    /\ \A i \in 1..Len(tasks) : tasks[i].kind = "gift" => GiftCallsInOrder(tasks[i])
    /\ fin.kind = "gift" => GiftCallsInOrder(fin)

\* C26: a gift handler pulls the state first, then evaluates the heuristic on
\* the gift name, then resolves the recipient and posts the value.  The slot of
\* the score add is resolved against the bindings as the last state pull left
\* them; and when the gift triggered a heuristic start, the score add is issued
\* after the start call, with the cumulative scores and the ledger reset, and
\* the gift is recorded onto the reset values.
C26_GiftOrder ==
    /\ []C26_CallsInOrder
    /\ [][(Len(tasks) = 1 /\ tasks[1].kind = "gift" /\ tasks' # tasks) =>
             /\ (Len(tasks') = 1 /\ tasks'[1].pc = "score_gift:post") =>
                    /\ tasks'[1].slot = SlotForRecipient(tasks[1].evt.recipient, slots')
                    /\ tasks[1].pc = "trigger_start:sync" =>
                           /\ last_scores' = ZeroScores
                           /\ score_by_id' = EmptyMap
             /\ (tasks[1].pc = "score_gift:post" /\ Len(tasks[1].out) = 4
                    /\ tasks[1].out[2] = StartCall("heuristic")) =>
                    /\ last_scores' = [ZeroScores EXCEPT ![tasks[1].slot] = tasks[1].value]
                    /\ DOMAIN score_by_id' = {NormalizeUserId(tasks[1].evt.recipient)}
                    /\ \A r \in DOMAIN score_by_id' : score_by_id'[r] = tasks[1].value]_vars

\* A gift named "battle" worth 15 to anna has pulled the state, triggered a
\* heuristic start, pulled the state again (which bound slot_two to anna) and
\* then posted 15 to slot_two, recorded onto the reset scores and ledger.
C26_Witness ==
    /\ tasks = <<>>
    /\ fin.kind = "gift"
    /\ fin.pc = "done"
    /\ fin.out = <<StateCall, StartCall("heuristic"), StateCall, ScoreCall("slot_two", 15)>>
    /\ last_scores = [slot_one |-> 0, slot_two |-> 15]
    /\ score_by_id = [r \in {S_anna} |-> 15]
    /\ last_start = Utc(now)

(***************************************************************************)
(* C27: the dedupe window is anchored at the first-seen time of a key      *)
(***************************************************************************)

\* The key "comment:{id}" of a comment that carries an id.
IdKey(e) == <<"comment", ":">> \o FirstTruthy(e.ids)

\* C27: a delivery whose key was registered at most 30 seconds ago (exactly 30
\* included) is a duplicate and leaves the registration time of the key as it
\* was; a delivery whose key was registered more than 30 seconds ago, or never,
\* is processed and registers the key at the time of the delivery.  After the
\* lookup the window holds no entry older than 30 seconds.
C27_WindowAnchored ==
    [][\A e \in WindowEvents :
          OnComment(e, 1) =>
              /\ IF IdKey(e) \in DOMAIN seen /\ now - seen[IdKey(e)] <= 30
                 THEN /\ fin'.pc = "duplicate"
                      /\ seen'[IdKey(e)] = seen[IdKey(e)]
                 ELSE /\ fin'.pc = "done"
                      /\ seen'[IdKey(e)] = now
              /\ \A k \in DOMAIN seen' : now - seen'[k] <= 30]_vars

\* A comment delivered exactly 30 seconds after its key was registered has
\* been suppressed, and the key is still registered at its first-seen time.
C27_Witness ==
    /\ now = 30
    /\ fin.pc = "duplicate"
    /\ fin.evt = CommentEvent(Str2("a", "1"), S_bob, S_hi)
    /\ <<"comment", ":", "a", "1">> \in DOMAIN seen
    /\ seen[<<"comment", ":", "a", "1">>] = 0

(***************************************************************************)
(* C28: the heuristic fires whenever the cooldown allows it                *)
(***************************************************************************)

\* More than 30 seconds have elapsed since the transition last happened, or it
\* has never happened.
Allowed(last) == ~last.aware \/ now - last.t > 30

\* Handler i, suspended in the state pull of on_gift, runs on in this step.
GiftPulled(i) ==
    /\ i \in 1..Len(tasks)
    /\ tasks[i].pc = "on_gift:sync"
    /\ \/ Len(tasks') = Len(tasks) /\ tasks'[i] # tasks[i]
       \/ Len(tasks') < Len(tasks) /\ tasks' = RemoveAt(tasks, i)

\* Handler i triggers, in this step, a heuristic start (pc "trigger_start:post")
\* or end (pc "trigger_end:post").
Fires(i, pc) ==
    /\ Len(tasks') >= i
    /\ tasks'[i].pc = pc
    /\ tasks'[i].out[Len(tasks'[i].out)].reason = "heuristic"

\* C28: a non-duplicate comment that is no command and contains "start battle"
\* triggers a start whenever more than 30 seconds have elapsed since the last
\* start or none has occurred, and so does a gift whose name contains "battle";
\* a comment that does not match the start rule and contains "end battle" or is
\* "gg" triggers an end whenever more than 30 seconds have elapsed since the
\* last end or none has occurred.
C28_HeuristicFires ==
    [][/\ \A e \in HeuristicComments :
              (OnComment(e, MaxPending) /\ NotDuplicate(e)) =>
                  /\ (Contains(e.comment, S_start_battle) /\ Allowed(last_start))
                         => Fires(Len(tasks) + 1, "trigger_start:post")
                  /\ (/\ ~Contains(e.comment, S_start_battle)
                      /\ Contains(e.comment, S_end_battle) \/ e.comment = S_gg
                      /\ Allowed(last_end))
                         => Fires(Len(tasks) + 1, "trigger_end:post")
       /\ \A i \in Handlers :
              (/\ GiftPulled(i)
               /\ Contains(tasks[i].evt.gift_name, S_battle)
               /\ Allowed(last_start))
                  => Fires(i, "trigger_start:post")]_vars

(***************************************************************************)
(* C29: first match wins, one transition per event                         *)
(***************************************************************************)

\* The content of an event matches a start rule and an end rule of its kind.
AnyOf(s, words) == \E w \in words : Contains(s, w)
MatchesBoth(e) ==
    LET comment == Lower(e.comment)
        gift_name == Lower(e.gift_name)
    IN  CASE e.kind = "link_state" ->
                 /\ Contains(Lower(e.state), S_battle)
                 /\ AnyOf(Lower(e.state), {S_start, S_enter, S_begin})
                 /\ AnyOf(Lower(e.state), {S_end, S_finish, S_exit})
          [] e.kind = "control" ->
                 /\ Contains(Lower(e.action), S_battle)
                 /\ AnyOf(Lower(e.action), {S_start, S_begin})
                 /\ AnyOf(Lower(e.action), {S_end, S_finish, S_stop})
          [] e.kind = "comment" ->
                 /\ AnyOf(comment, {S_bang_battle, S_start_battle})
                 /\ AnyOf(comment, {S_bang_end, S_end_battle})
          [] e.kind = "gift" ->
                 Contains(gift_name, S_battle) /\ Contains(gift_name, S_whistle)
          [] OTHER -> FALSE
IsCommand(e) ==
    e.kind = "comment" /\ \E p \in {S_bang_battle, S_bang_end, S_bang_slots} :
                              StartsWith(e.comment, p)

\* The handler of the step is the one the feed has just delivered, or the gift
\* handler that has just come back from its state pull.
RuleDelivered(e) ==
    \/ e.kind = "link_state" /\ OnLinkState(e, 1)
    \/ e.kind = "control" /\ OnControl(e, 1)
    \/ e.kind = "comment" /\ OnComment(e, 1)
RulePulled ==
    /\ Len(tasks) = 1
    /\ tasks[1].pc = "on_gift:sync"
    /\ tasks' # tasks
StartTriggered == Len(tasks') = 1 /\ tasks'[1].pc = "trigger_start:post"
EndTriggered == Len(tasks') = 1 /\ tasks'[1].pc = "trigger_end:post"
StartSuppressed == last_start.aware /\ now - last_start.t <= Cooldown
HeuristicOutcome ==
    /\ EndTriggered => StartSuppressed
    /\ (last_start.aware /\ ~StartSuppressed) => StartTriggered
    /\ (StartSuppressed /\ last_end.aware /\ now - last_end.t > Cooldown) => EndTriggered

\* No handler ever issues more than one start-or-end call for its event.
C29_OneTransition ==
    /\ Len(Lifecycle(fin.out)) <= 1
    /\ \A i \in 1..Len(tasks) : Len(Lifecycle(tasks[i].out)) <= 1

\* C29: one event triggers at most one lifecycle transition, never a start and
\* an end.  When the content of an event that is no duplicate matches a start
\* rule and an end rule, a link-state description, a control action and a
\* command trigger the start; a chat line or a gift name seen by the heuristic
\* triggers the end only if the start did not fire, which is the case when the
\* start is within its cooldown, and triggers the start whenever the start
\* cooldown is over.
C29_FirstMatchWins ==
    /\ []C29_OneTransition
    /\ [][/\ \A e \in RuleLinkStates \cup RuleControls \cup RuleComments :
                (MatchesBoth(e) /\ NotDuplicate(e) /\ RuleDelivered(e)) =>
                    IF e.kind = "comment" /\ ~IsCommand(e) THEN HeuristicOutcome
                    ELSE StartTriggered /\ ~EndTriggered
          /\ (RulePulled /\ MatchesBoth(tasks[1].evt)) => HeuristicOutcome]_vars

\* The start of a chat line that matches both rules is within its cooldown, and
\* its handler has triggered the end.
C29_Witness ==
    /\ Len(tasks) = 1
    /\ tasks[1].kind = "comment"
    /\ MatchesBoth(tasks[1].evt) /\ ~IsCommand(tasks[1].evt)
    /\ tasks[1].pc = "trigger_end:post"
    /\ last_start.aware /\ now - last_start.t <= Cooldown
    /\ Lifecycle(tasks[1].out) = <<EndCall("heuristic")>>

(***************************************************************************)
(* C30: what trigger_start and trigger_end write                           *)
(***************************************************************************)

\* A handler enters trigger_start (trigger_end) in this step: it is suspended
\* at the POST of the start (end), which it has just issued.
Enters(pc) ==
    /\ Len(tasks') = 1
    /\ tasks'[1].pc = pc
    /\ tasks = <<>> \/ tasks[1].pc # pc
\* A handler suspended at the await named pc runs on in this step.
RunsOn(pc) == Len(tasks) = 1 /\ tasks[1].pc = pc /\ tasks' # tasks
StartOrigins ==
    {"linkmic_battle_event", "linkmic_battle_notice", "armies_event", "link_state",
     "control", "command", "heuristic"}

\* C30: whatever its origin, trigger_start has recorded the start time, reset
\* both cumulative scores to 0 and emptied the ledger when it suspends for the
\* first time; trigger_end has recorded the end time when it suspends, empties
\* the ledger when its calls are over, and in none of its steps changes the
\* cumulative scores or the last-start time.
C30_TriggerEffects ==
    [][/\ Enters("trigger_start:post") =>
              /\ tasks'[1].out[Len(tasks'[1].out)].reason \in StartOrigins
              /\ last_start' = [aware |-> TRUE, t |-> now]
              /\ last_scores' = [slot_one |-> 0, slot_two |-> 0]
              /\ DOMAIN score_by_id' = {}
       /\ Enters("trigger_end:post") =>
              /\ last_end' = [aware |-> TRUE, t |-> now]
              /\ last_scores' = last_scores
              /\ last_start' = last_start
       /\ RunsOn("trigger_end:post") =>
              /\ tasks'[1].pc = "trigger_end:sync"
              /\ UNCHANGED <<last_start, last_end, last_scores>>
       /\ RunsOn("trigger_end:sync") =>
              /\ DOMAIN score_by_id' = {}
              /\ UNCHANGED <<last_start, last_end, last_scores>>]_vars

\* A control description has started a battle when a gift had been scored: the
\* handler found 15 points recorded and is suspended at the POST of the start,
\* the scores at 0 and the ledger empty.
C30_Witness ==
    /\ Len(tasks) = 1
    /\ tasks[1].kind = "control"
    /\ tasks[1].pc = "trigger_start:post"
    /\ tasks[1].p0.slot_one + tasks[1].p0.slot_two = 15
    /\ last_scores = ZeroScores
    /\ score_by_id = EmptyMap
    /\ last_start = Utc(now)

(***************************************************************************)
(* C31: the deltas posted for a slot add up to what the feed reported      *)
(***************************************************************************)

\* The largest cumulative the feed ever reports for a slot.
LargestReported(slot) ==
    LET vals == {TallyFor(e, slot) : e \in DipTallies}
    IN  CHOOSE v \in vals : \A w \in vals : w <= v

\* C31: with tally events only and every post succeeding, the deltas posted for
\* a slot since the last start add up to no more than the largest cumulative
\* the feed reported for the slot, also when the feed reports a lower value
\* for a while and then recovers.
C31_TallyBounded ==
    \A slot \in SlotNames : calls.delivered[slot] <= LargestReported(slot)

(***************************************************************************)
(* C32: the tally path does not count a scored gift again                  *)
(***************************************************************************)

\* The last handler that returned is a tally handler that ran to its end, and
\* the cumulative it carried for the slot includes what was recorded for it.
TallyIncludes(slot) ==
    /\ tasks = <<>>
    /\ fin.kind = "armies"
    /\ fin.pc = "done"
    /\ TallyFor(fin.evt, slot) >= fin.prev[slot]

\* C32: events handled one after another, once a gift has been scored to a
\* slot, a tally event whose cumulative for the slot includes it posts only the
\* amount beyond what was recorded: the total posted for the slot since the
\* last start equals the tally's cumulative.
C32_GiftNotCountedTwice ==
    \A slot \in SlotNames :
        TallyIncludes(slot) => calls.delivered[slot] = TallyFor(fin.evt, slot)

\* A gift of 11 was scored to slot one, and the tally of 13 that followed has
\* posted 2.
C32_Witness ==
    /\ TallyIncludes("slot_one")
    /\ fin.prev.slot_one = 11
    /\ fin.out[1] = ScoreCall("slot_one", 2)
    /\ calls.delivered.slot_one = 13

(***************************************************************************)
(* C33: score bookkeeping under interleaved handlers                       *)
(***************************************************************************)

\* A gift handler is suspended in its score add and the tally handler that
\* returned last ran meanwhile: it found the cumulatives the gift handler
\* had found, and the cumulative it carried for the gift's slot includes the
\* gift's value.
TallyRanDuringGift ==
    /\ Len(tasks) = 1
    /\ tasks[1].kind = "gift"
    /\ tasks[1].pc = "score_gift:post"
    /\ fin.kind = "armies"
    /\ fin.pc = "done"
    /\ fin.prev = tasks[1].p0
    /\ TallyFor(fin.evt, tasks[1].slot) >= fin.prev[tasks[1].slot] + tasks[1].value

\* C33: when a tally event is handled while a gift handler is suspended in its
\* score add, the gift's value is still posted once in total: once both
\* handlers have finished, the total posted for the slot since the last start
\* is the tally's cumulative, which includes the gift, and the local cumulative
\* equals it.
C33_GiftPostedOnce ==
    [][(TallyRanDuringGift /\ tasks' = <<>>) =>
           /\ calls'.delivered[tasks[1].slot] = TallyFor(fin.evt, tasks[1].slot)
           /\ last_scores'[tasks[1].slot] = calls'.delivered[tasks[1].slot]]_vars

(***************************************************************************)
(* C34: the cooldown check and the time stamp are one step                 *)
(***************************************************************************)

\* The handler has triggered a start that the cooldown gates.
GatedReasons == {"heuristic", "armies_event"}
HasGatedStart(tk) ==
    \E k \in 1..Len(tk.out) :
        tk.out[k].op = "POST battle/start" /\ tk.out[k].reason \in GatedReasons
\* Handler i triggers such a start in this step.
GatedStartBy(i) ==
    /\ Len(tasks') >= Len(tasks)
    /\ Len(tasks') >= i
    /\ tasks'[i].pc = "trigger_start:post"
    /\ i > Len(tasks) \/ tasks[i].pc # "trigger_start:post"
    /\ tasks'[i].out[Len(tasks'[i].out)].reason \in GatedReasons

\* Of the handlers in progress, no two have triggered a gated start.
C34_OneGatedStart ==
    \A i, j \in 1..Len(tasks) : (HasGatedStart(tasks[i]) /\ HasGatedStart(tasks[j])) => i = j

\* C34: a heuristic or tally-implicit start is triggered only in a step that
\* finds the cooldown over and that stamps the start time itself, so of the
\* events that qualify for such a start and are handled as interleaved tasks
\* once the cooldown has expired, exactly one triggers it.
C34_CooldownRaceFree ==
    /\ []C34_OneGatedStart
    /\ [][\A i \in Handlers :
              GatedStartBy(i) =>
                  /\ last_start.aware /\ now - last_start.t > Cooldown
                  /\ last_start' = [aware |-> TRUE, t |-> now]
                  /\ \A j \in 1..Len(tasks') : HasGatedStart(tasks'[j]) => j = i]_vars

\* Two gifts named "battle" were delivered when the cooldown was over; the
\* handler of one has triggered the start and is suspended in its POST, the
\* other has run to its end without a start.
C34_Witness ==
    /\ Len(tasks) = 1
    /\ tasks[1].kind = "gift" /\ tasks[1].start0 = "old"
    /\ tasks[1].pc = "trigger_start:post"
    /\ HasGatedStart(tasks[1])
    /\ fin.kind = "gift" /\ fin.start0 = "old"
    /\ fin.pc = "done"
    /\ ~HasGatedStart(fin)
    /\ Contains(fin.evt.gift_name, S_battle)
    /\ last_start = Utc(now)

(***************************************************************************)
(* C35: the names of the binding are never empty                           *)
(***************************************************************************)

\* C35: the default names being non-empty, after any sequence of state pulls
\* (failed, or of any content), of import_slots calls (with any names, empty
\* ones included) and of "!slots" commands, both names of the binding are
\* non-empty.
C35_NamesNonEmpty ==
    /\ DEFAULT_SLOT_ONE # <<>> /\ DEFAULT_SLOT_TWO # <<>>
    /\ slots.slot_one # <<>>
    /\ slots.slot_two # <<>>

\* An import with an empty first name has been served and the state pull that
\* followed brought an empty name too: the binding has taken the second name of
\* the import and kept a first name.
C35_Witness ==
    /\ tasks = <<>>
    /\ fin.kind = "import_slots" /\ fin.pc = "done"
    /\ fin.one = <<>> /\ fin.two = S_ann
    /\ slots.slot_two = S_ann
    /\ slots.slot_one = S_bob

(***************************************************************************)
(* C36: the deltas posted after a tally-implicit start                     *)
(***************************************************************************)

\* The tally handler that returned last has triggered the implicit start.
ImplicitStartDone ==
    /\ fin.kind = "armies"
    /\ fin.pc = "done"
    /\ Len(fin.out) > 0
    /\ fin.out[1] = StartCall("armies_event")
\* The score adds that the scores carried by a tally event give against a
\* baseline of 0: the score of each side that reports one.
AddsFromZero(evt) ==
    (IF TallyFor(evt, "slot_one") > 0
     THEN <<ScoreCall("slot_one", TallyFor(evt, "slot_one"))>> ELSE <<>>)
    \o (IF TallyFor(evt, "slot_two") > 0
        THEN <<ScoreCall("slot_two", TallyFor(evt, "slot_two"))>> ELSE <<>>)

\* C36: when a tally event triggers an implicit start, the deltas posted after
\* the reset come from the scores the event carries, measured against 0: a side
\* whose score is absent or 0 gets no score post, and no cumulative recorded
\* before the reset is posted again.
C36_ImplicitStartDeltas ==
    ImplicitStartDone => ScoreAdds(fin.out) = AddsFromZero(fin.evt)

(***************************************************************************)
(* C37: import_slots adopts the names only when its call did not fail      *)
(***************************************************************************)

\* The binding once the names one and two are adopted: an empty name leaves
\* its side as it was.
Adopted(sl, one, two) ==
    [slot_one |-> IF one = <<>> THEN sl.slot_one ELSE one,
     slot_two |-> IF two = <<>> THEN sl.slot_two ELSE two]

\* C37: when the import call ends, the binding takes the imported names if the
\* call did not fail, an empty name leaving its side as it was, and does not
\* change if the call failed; in both cases the state pull is issued next.
C37_ImportAdopts ==
    [][\A ok \in BOOLEAN :
          (Len(tasks) = 1 /\ tasks[1].pc = "import_slots:post" /\ ImportPosted(1, ok)) =>
              /\ slots' = IF ok THEN Adopted(slots, tasks[1].one, tasks[1].two) ELSE slots
              /\ Len(tasks') = 1
              /\ tasks'[1].pc = "import_slots:sync"
              /\ tasks'[1].out = Append(tasks[1].out, StateCall)]_vars

\* An import of an empty first name and of "ann" went through: the handler is
\* suspended in the state pull, the second name adopted and the first side as
\* it was.
C37_Witness ==
    /\ Len(tasks) = 1
    /\ tasks[1].pc = "import_slots:sync"
    /\ tasks[1].one = <<>> /\ tasks[1].two = S_ann
    /\ slots = [slot_one |-> DEFAULT_SLOT_ONE, slot_two |-> S_ann]

(***************************************************************************)
(* C38: the battle state under start_battle, end_battle, increment_score   *)
(***************************************************************************)

\* Each slot's score is the sum of the increments applied to it since the
\* most recent start_battle.
ScoresAreSums == api.scores = calls.delivered

\* C38: start_battle sets active, clears end_time and resets both scores to 0;
\* end_battle clears active and leaves the scores as they were; increment_score
\* adds the amount to exactly one slot; each score is the sum of the increments
\* applied to the slot since the most recent start_battle; and increment_score
\* with a slot other than slot_one or slot_two raises and leaves the state as
\* it was.
C38_BattleState ==
    /\ []ScoresAreSums
    /\ [][/\ PostBattleStart =>
                (api'.active /\ api'.end_time = {} /\ api'.scores = ZeroScores)
          /\ PostBattleEnd =>
                (~api'.active /\ api'.end_time = {now} /\ api'.scores = api.scores)
          /\ \A raw \in RawSlots, amount \in Amounts :
                PostScoreAdd(raw, amount) =>
                    IF normalize_slot(raw) \in {"slot_one", "slot_two"}
                    THEN \E slot \in {"slot_one", "slot_two"} :
                             /\ api'.scores[slot] = api.scores[slot] + amount
                             /\ \A other \in {"slot_one", "slot_two"} \ {slot} :
                                    api'.scores[other] = api.scores[other]
                             /\ api'.active = api.active
                             /\ api'.end_time = api.end_time
                    ELSE api' = api /\ normalize_slot(raw) \in calls'.failed]_vars

\* A battle was started, scored on both slots, ended with its scores kept, and
\* an add to a slot that does not exist has raised.
C38_Witness ==
    /\ ~api.active
    /\ api.end_time = {20}
    /\ api.scores = [slot_one |-> 8, slot_two |-> 7]
    /\ calls.failed = {"slot_three"}

(***************************************************************************)
(* C39: each role belongs to at most one song                              *)
(***************************************************************************)

\* No role is in the roles of two different songs.
RolesUnique ==
    \A s1 \in DOMAIN api.library, s2 \in DOMAIN api.library :
        s1 # s2 => SetOf(api.library[s1].roles) \cap SetOf(api.library[s2].roles) = {}

\* The step gives the roles to the song song_id, which it registers or updates:
\* every other song loses these roles, keeps its other roles, and keeps every
\* other field.
AssignsRoles(song_id, roles) ==
    /\ song_id \in DOMAIN api'.library
    /\ api'.library[song_id].roles = roles
    /\ \A sid \in DOMAIN api.library \ {song_id} :
           /\ sid \in DOMAIN api'.library
           /\ SetOf(api'.library[sid].roles) = SetOf(api.library[sid].roles) \ SetOf(roles)
           /\ [api'.library[sid] EXCEPT !.roles = <<>>] = [api.library[sid] EXCEPT !.roles = <<>>]

\* C39: from the empty library, whatever songs are registered, updated, renamed
\* and deleted, no role is in the roles of two different songs; and giving
\* roles to a song removes them from every other song and changes no other
\* field of the other songs.
C39_RolesUnique ==
    /\ []RolesUnique
    /\ [][/\ \A req \in RegisterRequests :
                PostSongsRegister(req) => AssignsRoles(req.song_id, OrEmpty(req.roles))
          /\ \A req \in UpdateRequests :
                (PostSongsUpdateDancers(req) /\ req.roles # {}
                   /\ req.song_id \in DOMAIN api.library) =>
                    AssignsRoles(req.song_id, OrEmpty(req.roles))]_vars

\* The song s1 was given lead and twirl, and lost lead when s2 was given it:
\* s1 is left with twirl, which no request gives on its own, and with its
\* dancers.
C39_Witness ==
    /\ DOMAIN api.library = {"s1", "s2"}
    /\ api.library["s1"].roles = <<"twirl">>
    /\ api.library["s1"].dancers = <<"anna">>
    /\ api.library["s2"].roles = <<"lead">>

(***************************************************************************)
(* C40: the registry of websockets under connect, disconnect, broadcast    *)
(***************************************************************************)

\* The step ends a broadcast, which completed' then describes.
BroadcastCompletes == Len(broadcasts') < Len(broadcasts)

\* Every connection whose send failed in the broadcast is out of the registry.
FailedAreRemoved == \A w \in SetOf(completed'.to_remove) : w \notin SetOf(connections')

\* connect registers a connection once, and no removal raises.
RegisteredOnce ==
    /\ Cardinality(SetOf(connections)) = Len(connections)
    /\ ~ws_raised

\* disconnect of a connection that is not registered changes nothing.
RemovalOfGoneIsNoOp ==
    \A w \in WebSockets :
        (WsDisconnect(w) /\ w \notin SetOf(connections)) => connections' = connections

\* The claim as stated: when a broadcast completes, every connection whose send
\* failed in it is out of the registry and every connection whose send
\* succeeded and that disconnect() has not removed meanwhile is registered; no
\* connection is registered twice, and removing a connection that is gone is a
\* no-op and no error.
C40_AsStated ==
    /\ []RegisteredOnce
    /\ [][/\ RemovalOfGoneIsNoOp
          /\ BroadcastCompletes =>
                /\ FailedAreRemoved
                /\ \A w \in completed'.sent \ completed'.dropped :
                       w \in SetOf(connections')]_vars

\* C40: when a broadcast completes, every connection whose send failed in it
\* is out of the registry, and every connection whose send succeeded in it
\* and that neither disconnect() nor another broadcast, in which its send
\* failed, has removed meanwhile is registered; no connection is registered
\* twice, and removing a connection that is gone is a no-op and no error.
C40_BroadcastRegistry ==
    /\ []RegisteredOnce
    /\ [][/\ RemovalOfGoneIsNoOp
          /\ BroadcastCompletes =>
                /\ FailedAreRemoved
                /\ \A w \in completed'.sent \ (completed'.dropped \cup completed'.pruned) :
                       w \in SetOf(connections')]_vars

\* A broadcast to w1, w2 and w3 has completed: the send to w1 succeeded and w1
\* is registered, the send to w2 failed and w2 is out, w3 was removed by
\* another broadcast meanwhile, and the endpoint of w2 has since called
\* disconnect() for the connection that was gone.
C40_Witness ==
    /\ completed.sent = {"w1", "w3"}
    /\ completed.to_remove = <<"w2">>
    /\ completed.dropped = {}
    /\ completed.pruned = {"w3"}
    /\ connections = <<"w1">>
    /\ sockets["w2"] = "closed"
    /\ ~ws_raised

====
